---- MODULE Spec2Model ----
(***************************************************************************)
(* mouseMapper: the event-transformation engine.                           *)
(*                                                                         *)
(* The module models the supervisor (engine_task), the engine instances it *)
(* spawns (run_engine), the blocking reader thread of each engine          *)
(* (DeviceReader::read_loop and Drop), the event mapper                    *)
(* (EventMapper::process_event), the macro runner (MacroEngine) and the    *)
(* timer tasks it spawns (run_repeat_macro, run_sequence_macro).           *)
(***************************************************************************)
EXTENDS Integers, Sequences, FiniteSets, TLC

\* ------------------------------------------------------------------ bounds
\* engines one supervisor spawns (Start commands handled)
MaxEngines == 2
\* source events delivered over a run of the mapper specification
MaxEvents == 2
\* trigger-key events delivered over a run of the runner specification
MaxKeyEvents == 4
\* source events delivered over a run of the whole system
MaxSysEvents == 2
\* timer tasks spawned over a run
MaxTasks == 2
\* events waiting in the reader -> engine channel
MaxChan == 1
\* commands the supervisor handles over a run
MaxCmds == 2
\* source events fed to the hold specification
MaxHoldEvents == 3
\* events the reader passes on before its read loop fails (FairReaderFailSpec)
MaxFailEvents == 2
MaxOrderEvents == 3
MaxOrderChan == 2
MaxLoads == 2
MaxIntervalMs == 5
MaxJitterMs == 7
\* the observations the engine sends to the monitor: bursts of pointer motion
\* and single messages (MonitorSpec)
MaxBursts == 1
BurstLen == 600
MaxSingles == 1

\* ------------------------------------------------------- evdev event model
EV_SYN == 0
EV_KEY == 1
EV_REL == 2
EV_MSC == 4

\* An InputEvent. time = 1 stands for the kernel's timestamp of a source
\* event, time = 0 for the zero timestamp InputEvent::new gives a synthetic one.
Ev(t, c, v, tm) == [type |-> t, code |-> c, value |-> v, time |-> tm]
NewInputEvent(t, c, v) == Ev(t, c, v, 0)
SynReport == NewInputEvent(EV_SYN, 0, 0)

\* ---------------------------------------------------------- key-name codec
LowerChars == "abcdefghijklmnopqrstuvwxyz"
UpperChars == "ABCDEFGHIJKLMNOPQRSTUVWXYZ"
DigitChars == "0123456789"
CharAt(s, i) == SubSeq(s, i, i)
IndexIn(alphabet, c) ==
    IF \E i \in 1..Len(alphabet) : CharAt(alphabet, i) = c
    THEN CHOOSE i \in 1..Len(alphabet) : CharAt(alphabet, i) = c
    ELSE 0
UpChar(c) == IF IndexIn(LowerChars, c) > 0 THEN CharAt(UpperChars, IndexIn(LowerChars, c)) ELSE c

RECURSIVE to_uppercase(_)
to_uppercase(s) ==
    IF Len(s) = 0 THEN "" ELSE UpChar(CharAt(s, 1)) \o to_uppercase(SubSeq(s, 2, Len(s)))

starts_with(s, p) == Len(s) >= Len(p) /\ SubSeq(s, 1, Len(p)) = p

\* str::parse::<u16>: an optional '+', then one or more decimal digits, value < 2^16.
\* The result is -1 for Err.
RECURSIVE DigitsValue(_, _)
DigitsValue(s, acc) ==
    IF Len(s) = 0 THEN acc
    ELSE IF IndexIn(DigitChars, CharAt(s, 1)) = 0 \/ acc < 0 THEN -1
    ELSE LET n == acc * 10 + (IndexIn(DigitChars, CharAt(s, 1)) - 1)
         IN  IF n > 65535 THEN -1 ELSE DigitsValue(SubSeq(s, 2, Len(s)), n)
parse_u16(s) ==
    LET d == IF Len(s) > 0 /\ CharAt(s, 1) = "+" THEN SubSeq(s, 2, Len(s)) ELSE s
    IN  IF Len(d) = 0 THEN -1 ELSE DigitsValue(d, 0)

BTN_LEFT == 272
BTN_RIGHT == 273
BTN_MIDDLE == 274
BTN_SIDE == 275
BTN_EXTRA == 276
BTN_FORWARD == 277
BTN_BACK == 278
BTN_TASK == 279

ButtonTable ==
    { <<"BTN_LEFT", BTN_LEFT>>, <<"BTN_MOUSE", BTN_LEFT>>, <<"BTN_RIGHT", BTN_RIGHT>>,
      <<"BTN_MIDDLE", BTN_MIDDLE>>, <<"BTN_SIDE", BTN_SIDE>>, <<"BTN_EXTRA", BTN_EXTRA>>,
      <<"BTN_FORWARD", BTN_FORWARD>>, <<"BTN_BACK", BTN_BACK>>, <<"BTN_TASK", BTN_TASK>> }

KeyTable ==
    { <<"KEY_ESC", 1>>, <<"KEY_1", 2>>, <<"KEY_2", 3>>, <<"KEY_3", 4>>, <<"KEY_4", 5>>,
      <<"KEY_5", 6>>, <<"KEY_6", 7>>, <<"KEY_7", 8>>, <<"KEY_8", 9>>, <<"KEY_9", 10>>,
      <<"KEY_0", 11>>, <<"KEY_MINUS", 12>>, <<"KEY_EQUAL", 13>>, <<"KEY_BACKSPACE", 14>>,
      <<"KEY_TAB", 15>>, <<"KEY_Q", 16>>, <<"KEY_W", 17>>, <<"KEY_E", 18>>, <<"KEY_R", 19>>,
      <<"KEY_T", 20>>, <<"KEY_Y", 21>>, <<"KEY_U", 22>>, <<"KEY_I", 23>>, <<"KEY_O", 24>>,
      <<"KEY_P", 25>>, <<"KEY_LEFTBRACE", 26>>, <<"KEY_RIGHTBRACE", 27>>, <<"KEY_ENTER", 28>>,
      <<"KEY_LEFTCTRL", 29>>, <<"KEY_A", 30>>, <<"KEY_S", 31>>, <<"KEY_D", 32>>,
      <<"KEY_F", 33>>, <<"KEY_G", 34>>, <<"KEY_H", 35>>, <<"KEY_J", 36>>, <<"KEY_K", 37>>,
      <<"KEY_L", 38>>, <<"KEY_SEMICOLON", 39>>, <<"KEY_APOSTROPHE", 40>>, <<"KEY_GRAVE", 41>>,
      <<"KEY_LEFTSHIFT", 42>>, <<"KEY_BACKSLASH", 43>>, <<"KEY_Z", 44>>, <<"KEY_X", 45>>,
      <<"KEY_C", 46>>, <<"KEY_V", 47>>, <<"KEY_B", 48>>, <<"KEY_N", 49>>, <<"KEY_M", 50>>,
      <<"KEY_COMMA", 51>>, <<"KEY_DOT", 52>>, <<"KEY_SLASH", 53>>, <<"KEY_RIGHTSHIFT", 54>>,
      <<"KEY_LEFTALT", 56>>, <<"KEY_SPACE", 57>>, <<"KEY_CAPSLOCK", 58>>, <<"KEY_F1", 59>>,
      <<"KEY_F2", 60>>, <<"KEY_F3", 61>>, <<"KEY_F4", 62>>, <<"KEY_F5", 63>>, <<"KEY_F6", 64>>,
      <<"KEY_F7", 65>>, <<"KEY_F8", 66>>, <<"KEY_F9", 67>>, <<"KEY_F10", 68>>,
      <<"KEY_F11", 87>>, <<"KEY_F12", 88>>, <<"KEY_RIGHTCTRL", 97>>, <<"KEY_RIGHTALT", 100>>,
      <<"KEY_HOME", 102>>, <<"KEY_UP", 103>>, <<"KEY_PAGEUP", 104>>, <<"KEY_LEFT", 105>>,
      <<"KEY_RIGHT", 106>>, <<"KEY_END", 107>>, <<"KEY_DOWN", 108>>, <<"KEY_PAGEDOWN", 109>>,
      <<"KEY_INSERT", 110>>, <<"KEY_DELETE", 111>> }

Lookup(table, name) ==
    IF \E p \in table : p[1] = name THEN (CHOOSE p \in table : p[1] = name)[2] ELSE -1

\* parse_key_name(name): the KeyCode, or -1 for None.
parse_key_name(name) ==
    LET name_upper == to_uppercase(name)
        with_prefix == IF starts_with(name_upper, "KEY_") THEN name_upper
                       ELSE "KEY_" \o name_upper
    IN  IF Lookup(ButtonTable, name_upper) >= 0 THEN Lookup(ButtonTable, name_upper)
        ELSE IF Lookup(KeyTable, with_prefix) >= 0 THEN Lookup(KeyTable, with_prefix)
        ELSE parse_u16(name)

\* The names evdev gives the KeyCode constants, by code: those of the two
\* tables above, an alias being listed under its button's own name, and two
\* keys parse_key_name has no entry for.
NameTable ==
    {p \in ButtonTable \cup KeyTable : p[1] # "BTN_MOUSE"}
    \cup { <<"KEY_RESERVED", 0>>, <<"KEY_KPASTERISK", 55>> }

\* Faulty variant of key_name: the form a derived Debug of the newtype has.
key_name_newtype(key) == "KeyCode(" \o ToString(key) \o ")"

\* key_name: format!("{:?}", key); KeyCode's Debug writes the name of the
\* constant of that code, and "unknown key: <code>" for a code without one.
key_name(key) ==
    IF \E p \in NameTable : p[2] = key THEN (CHOOSE p \in NameTable : p[2] = key)[1]
    ELSE "unknown key: " \o ToString(key)

\* ---------------------------------------------------------- configuration
KeyOut(name) == [tag |-> "Key", key |-> name]
MacroOut(name) == [tag |-> "Macro", macro_name |-> name]
Binding(input, output) == [input |-> input, output |-> output]
Click(name) == [tag |-> "Click", arg |-> name]
Press(name) == [tag |-> "Press", arg |-> name]
Release(name) == [tag |-> "Release", arg |-> name]
Delay(ms) == [tag |-> "Delay", arg |-> ms]
MacroDef(name, type, actions, interval, initial_delay, jitter) ==
    [name |-> name, macro_type |-> type, actions |-> actions, interval_ms |-> interval,
     initial_delay_ms |-> initial_delay, jitter_ms |-> jitter]
Profile(name, bindings, macros) == [name |-> name, bindings |-> bindings, macros |-> macros]
Config(profiles, active) == [profiles |-> profiles, active_profile |-> active]

\* Config::default(): one empty profile named "Default"
ConfigDefault == Config(<<Profile("Default", <<>>, <<>>)>>, "Default")

\* the configuration files the model draws from
CfgRemap ==
    Config(<<Profile("remap",
                     <<Binding("BTN_EXTRA", KeyOut("KEY_A")),
                       Binding("btn_side", KeyOut("bogus")),
                       Binding("nokey", KeyOut("KEY_B"))>>,
                     <<>>)>>, "remap")
CfgHold ==
    Config(<<Profile("hold",
                     <<Binding("BTN_SIDE", MacroOut("rapid")),
                       Binding("BTN_EXTRA", MacroOut("missing"))>>,
                     <<MacroDef("rapid", "RepeatOnHold", <<Click("BTN_LEFT")>>, 50, 20, 0)>>)>>,
           "hold")
CfgToggle ==
    Config(<<Profile("unused", <<Binding("BTN_EXTRA", KeyOut("KEY_B"))>>, <<>>),
             Profile("toggle",
                     <<Binding("BTN_SIDE", MacroOut("toggle_fire"))>>,
                     <<MacroDef("toggle_fire", "Toggle", <<Click("BTN_LEFT")>>, 100, 20, 0)>>)>>,
           "toggle")
CfgSeq ==
    Config(<<Profile("seq",
                     <<Binding("BTN_SIDE", MacroOut("seq"))>>,
                     <<MacroDef("seq", "Sequence",
                                <<Press("KEY_LEFTCTRL"), Delay(5), Release("KEY_LEFTCTRL")>>,
                                50, 0, 0)>>)>>,
           "seq")
CfgMixed ==
    Config(<<Profile("mixed",
                     <<Binding("BTN_SIDE", MacroOut("rapid")),
                       Binding("BTN_EXTRA", MacroOut("toggle_fire"))>>,
                     <<MacroDef("rapid", "RepeatOnHold", <<Press("a")>>, 50, 0, 0),
                       MacroDef("toggle_fire", "Toggle", <<Release("a")>>, 100, 0, 0)>>)>>,
           "")
Configs == {CfgRemap, CfgHold, CfgToggle, CfgSeq, CfgMixed}
\* a RepeatOnHold macro with a Delay between the actions of its body
CfgDelay ==
    Config(<<Profile("delay",
                     <<Binding("BTN_SIDE", MacroOut("burst"))>>,
                     <<MacroDef("burst", "RepeatOnHold",
                                <<Press("KEY_A"), Delay(5), Release("KEY_A")>>,
                                50, 0, 0)>>)>>,
           "delay")
\* a Sequence macro of a Click, a Delay, a Press and a Release
CfgSeqClick ==
    Config(<<Profile("combo",
                     <<Binding("BTN_SIDE", MacroOut("combo"))>>,
                     <<MacroDef("combo", "Sequence",
                                <<Click("BTN_LEFT"), Delay(5), Press("KEY_A"), Release("KEY_A")>>,
                                50, 0, 0)>>)>>,
           "combo")
\* a binding list that names one button several times: BTN_SIDE twice under
\* the same name, BTN_LEFT under three spellings
CfgDup ==
    Config(<<Profile("dup",
                     <<Binding("BTN_LEFT", KeyOut("KEY_A")),
                       Binding("BTN_SIDE", KeyOut("KEY_A")),
                       Binding("BTN_SIDE", KeyOut("KEY_B")),
                       Binding("btn_left", KeyOut("KEY_B")),
                       Binding("BTN_MOUSE", KeyOut("KEY_C"))>>,
                     <<>>)>>, "dup")

SeqIndex(s, P(_)) == {i \in 1..Len(s) : P(s[i])}
Min(S) == CHOOSE x \in S : \A y \in S : x <= y
Max(S) == CHOOSE x \in S : \A y \in S : x >= y

\* Config::active_profile: the profile named active_profile, else (no name
\* set, "" here) the first one; <<>> for None.
active_profile(cfg) ==
    LET hit == IF cfg.active_profile # ""
               THEN {i \in 1..Len(cfg.profiles) : cfg.profiles[i].name = cfg.active_profile}
               ELSE {i \in 1..Len(cfg.profiles) : i = 1}
    IN  IF hit = {} THEN <<>> ELSE <<cfg.profiles[Min(hit)]>>

\* Config::build_binding_map: name -> output, a later entry of the same name
\* replacing an earlier one.
build_binding_map(cfg) ==
    LET p == active_profile(cfg)
        b == IF p = <<>> THEN <<>> ELSE p[1].bindings
        names == {b[i].input : i \in 1..Len(b)}
    IN  [n \in names |-> b[Max({i \in 1..Len(b) : b[i].input = n})].output]

\* Config::build_macro_map: macro name -> MacroDef, last of a name wins.
build_macro_map(cfg) ==
    LET p == active_profile(cfg)
        m == IF p = <<>> THEN <<>> ELSE p[1].macros
        names == {m[i].name : i \in 1..Len(m)}
    IN  [n \in names |-> m[Max({i \in 1..Len(m) : m[i].name = n})]]

\* The names a configuration holds: binding inputs, Key targets, action keys.
NamesOf(cfg) ==
    UNION {{p.bindings[i].input : i \in 1..Len(p.bindings)}
           \cup {p.bindings[i].output.key :
                    i \in {j \in 1..Len(p.bindings) : p.bindings[j].output.tag = "Key"}}
           \cup UNION {{m.actions[i].arg :
                          i \in {j \in 1..Len(m.actions) : m.actions[j].tag # "Delay"}} :
                       m \in {p.macros[i] : i \in 1..Len(p.macros)}} :
           p \in {cfg.profiles[i] : i \in 1..Len(cfg.profiles)}}

ConfigNames == UNION {NamesOf(cfg) : cfg \in Configs \cup {CfgDup, CfgDelay, CfgSeqClick}}

\* ------------------------------------------------------------------ state
Engines == 1..MaxEngines

VARIABLES
    sup,           \* engine_task: pc, active_engine (JoinHandle), cancel_tx (watch::Sender)
    ncmds,         \* commands handled so far
    eng,           \* per spawned engine task: pc, cancel (watch value), abort, pending output,
                   \* and the command that signalled it (stopped_by)
    reader,        \* per engine: the DeviceReader and its blocking thread
    grab,          \* kernel: the engine whose device fd holds EVIOCGRAB, 0 for none
    chan,          \* per engine: events in the reader -> engine channel
    nread,         \* source events delivered so far
    bindings,      \* per engine: EventMapper.bindings
    macro_defs,    \* per engine: EventMapper.macro_defs
    active,        \* per engine: MacroEngine.active, trigger -> task (its cancel sender)
    toggle_state,  \* per engine: MacroEngine.toggle_state
    tasks,         \* the timer tasks spawned so far, in spawn order
    lock,          \* per engine: holder of the Mutex around the DeviceWriter, 0 when free
    sink,          \* per engine: the last batch passed to the virtual device, by whom, and
                   \* whether the write succeeded
    last,          \* per engine: the last process_event call (event, result, runner call)
    passlog,       \* per engine, while no processed event was a bound KEY event: the events
                   \* and no write of the engine loop failed: the events processed (evs)
                   \* and the events the engine loop wrote to the sink (outs)
    keylog,        \* per engine: the macro-bound KEY events processed, as <<code, value>>
    msgs,          \* the observation channel, by sender (0: the supervisor, e: the
                   \* task of engine e): the EngineMessages it sent on its clone of
                   \* msg_tx, in send order
    accepting,     \* per engine: the uinput device takes writes (a write fails while not)
    keycode,       \* parse_key_name, tabulated: it is pure, and the table holds its
                   \* value on every name a configuration holds
    calc           \* a pure function under evaluation: its input, the step it is at
                   \* and its intermediate results

supVars == <<sup, ncmds>>
engVars == <<eng, bindings, macro_defs>>
readerVars == <<reader, grab, chan, nread>>
runnerVars == <<active, toggle_state, tasks>>
sinkVars == <<lock, sink>>
histVars == <<last, passlog, keylog>>
vars == <<sup, ncmds, eng, reader, grab, chan, nread, bindings, macro_defs, active,
          toggle_state, tasks, lock, sink, last, passlog, keylog, msgs, accepting,
          keycode, calc>>

EmptyMap == [k \in {} |-> 0]
NoCalc == [pc |-> "none"]
NoEngine == [pc |-> "none", cancel |-> FALSE, abort |-> FALSE, pending |-> <<>>,
             stopped_by |-> "none"]
NoReader == [pc |-> "none", grabbed |-> FALSE, failed |-> FALSE]
Clean == [clean |-> TRUE, evs |-> <<>>, outs |-> <<>>]
Dirty == [clean |-> FALSE, evs |-> <<>>, outs |-> <<>>]
NoLast == [ev |-> <<>>, out |-> <<>>, call |-> "none", n |-> 0, hadActive |-> FALSE,
           wasArmed |-> FALSE, spawned |-> 0, changed |-> FALSE]


\* the source device's events: two bindable buttons with every KEY value, a
\* button no configuration binds, and non-KEY events
SourceEvents ==
    {Ev(EV_KEY, c, v, 1) : c \in {BTN_SIDE, BTN_EXTRA}, v \in {0, 1, 2}}
    \cup {Ev(EV_KEY, BTN_LEFT, 1, 1), Ev(EV_SYN, 0, 0, 1), Ev(EV_REL, 0, 5, 1)}

\* ------------------------------------------------- the observation channel
\* the device path the UI passes with Start
DevicePath == "/dev/input/event0"

\* EngineMessage::StatusUpdate / EngineMessage::Error, with the task that sent
\* it (0: the supervisor, e: the task of engine e)
StatusUpdate(from, text) == [tag |-> "StatusUpdate", from |-> from, text |-> text]
Error(from, text) == [tag |-> "Error", from |-> from, text |-> text]

\* event_to_message: the type's name, the Debug form of the typed code, the
\* value, and the timestamp as seconds modulo 1000 with six digits of
\* microseconds (the model's timestamps are whole seconds)
event_to_message(from, event) ==
    [tag |-> "RawEvent", from |-> from,
     event_type |-> CASE event.type = EV_SYN -> "EV_SYN"
                      [] event.type = EV_KEY -> "EV_KEY"
                      [] event.type = EV_REL -> "EV_REL"
                      [] event.type = EV_MSC -> "EV_MSC"
                      [] OTHER -> "EV_" \o ToString(event.type),
     code |-> [kind |-> CASE event.type = EV_KEY -> "KeyCode"
                          [] event.type = EV_REL -> "RelativeAxisCode"
                          [] OTHER -> "u16",
               code |-> event.code],
     value |-> event.value,
     timestamp |-> <<event.time % 1000, 0>>]

\* `let _ = msg_tx.send(m)` on the unbounded channel
Send(m) == msgs' = [msgs EXCEPT ![m.from] = Append(@, m)]

\* EventMapper::load_config: the binding maps the loop over the name-keyed
\* HashMap can leave behind. Its iteration order is unspecified, so of several
\* names that parse to one KeyCode any one can be inserted last.
load_config_bindings(cfg) ==
    LET bm == build_binding_map(cfg)
        codes == {keycode[n] : n \in DOMAIN bm} \ {-1}
    IN  {f \in [codes -> {bm[n] : n \in DOMAIN bm}] :
            \A k \in codes : \E n \in DOMAIN bm : keycode[n] = k /\ f[k] = bm[n]}

\* ------------------------------------------------------------ macro runner
MapRemove(f, k) == [x \in (DOMAIN f) \ {k} |-> f[x]]
MapInsert(f, k, v) == [x \in (DOMAIN f) \cup {k} |-> IF x = k THEN v ELSE f[x]]
MapGet(f, k, default) == IF k \in DOMAIN f THEN f[k] ELSE default

\* watch::Sender::send(true) followed by the drop of the sender
SendCancel(ts, t, by) == [ts EXCEPT ![t].cancel = TRUE, ![t].closed = TRUE, ![t].by = by]
\* the drop of a watch::Sender that never sent
DropSender(ts, t) == [ts EXCEPT ![t].closed = TRUE]

\* send(true) on / the drop of every sender of S
SendCancelAll(ts, S, by) ==
    [t \in 1..Len(ts) |-> IF t \in S THEN SendCancel(ts, t, by)[t] ELSE ts[t]]
DropSenderAll(ts, S) ==
    [t \in 1..Len(ts) |-> IF t \in S THEN DropSender(ts, t)[t] ELSE ts[t]]

\* Where a task stands when it comes to action i of its list: a repeat task at
\* the cancellation check of the action loop, or past the last action in the
\* interval sleep; a sequence task at the action (asleep in a Delay), or done.
PcAt(kind, actions, i) ==
    IF kind = "repeat"
    THEN IF i > Len(actions) THEN "sleep" ELSE "loop"
    ELSE IF i > Len(actions) THEN "done"
         ELSE IF actions[i].tag = "Delay" THEN "delay" ELSE "exec"

\* handle.spawn(run_repeat_macro(..)) / handle.spawn(run_sequence_macro(..)):
\* the new task, with what it captured
NewTask(e, trigger, kind, def, initial_delay) ==
    [eng |-> e, trigger |-> trigger, kind |-> kind, mode |-> def.macro_type,
     actions |-> def.actions,
     interval_ms |-> def.interval_ms, jitter_ms |-> def.jitter_ms,
     initial_delay |-> initial_delay,
     pc |-> IF kind = "repeat" /\ initial_delay > 0 THEN "init_delay"
            ELSE PcAt(kind, def.actions, 1),
     idx |-> 1, cancel |-> FALSE, closed |-> FALSE, by |-> "none", late |-> 0,
     armed |-> TRUE, passes |-> 0]

\* Faulty variants of the runner's guards. Each is what the guard would be
\* with its test left out; the properties below must tell them apart from
\* the guards of the source.
already_running_never(e, trigger) == FALSE
is_active_never(e, trigger) == FALSE
toggle_armed_never(e, trigger) == FALSE

\* start_macro, RepeatOnHold: `self.active.contains_key(&trigger)`
already_running(e, trigger) == trigger \in DOMAIN active[e]

\* start_macro, Toggle: `self.toggle_state.get(&trigger).copied().unwrap_or(false)`
is_active(e, trigger) == MapGet(toggle_state[e], trigger, FALSE)

\* stop_macro: the early return for an armed toggle
toggle_armed(e, trigger) == MapGet(toggle_state[e], trigger, FALSE)

\* Faulty variant of start_macro: a Sequence is entered into `active` as a
\* repeating macro is.
start_macro_tracks_sequence(e, trigger, def) ==
    LET t == Len(tasks) + 1 IN
    CASE def.macro_type = "RepeatOnHold" ->
            IF already_running(e, trigger)
            THEN UNCHANGED runnerVars
            ELSE /\ Len(tasks) < MaxTasks
                 /\ active' = [active EXCEPT ![e] = MapInsert(@, trigger, t)]
                 /\ tasks' = Append(IF trigger \in DOMAIN active[e]
                                    THEN DropSender(tasks, active[e][trigger]) ELSE tasks,
                                    NewTask(e, trigger, "repeat", def, def.initial_delay_ms))
                 /\ UNCHANGED toggle_state
      [] def.macro_type = "Sequence" ->
            /\ Len(tasks) < MaxTasks
            /\ active' = [active EXCEPT ![e] = MapInsert(@, trigger, t)]
            /\ tasks' = Append(IF trigger \in DOMAIN active[e]
                               THEN DropSender(tasks, active[e][trigger]) ELSE tasks,
                               NewTask(e, trigger, "sequence", def, 0))
            /\ UNCHANGED toggle_state
      [] def.macro_type = "Toggle" ->
            IF is_active(e, trigger)
            THEN /\ toggle_state' = [toggle_state EXCEPT ![e] = MapInsert(@, trigger, FALSE)]
                 /\ active' = [active EXCEPT ![e] = MapRemove(@, trigger)]
                 /\ tasks' = IF trigger \in DOMAIN active[e]
                             THEN SendCancel(tasks, active[e][trigger], "start") ELSE tasks
            ELSE /\ Len(tasks) < MaxTasks
                 /\ toggle_state' = [toggle_state EXCEPT ![e] = MapInsert(@, trigger, TRUE)]
                 /\ active' = [active EXCEPT ![e] = MapInsert(@, trigger, t)]
                 /\ tasks' = Append(IF trigger \in DOMAIN active[e]
                                    THEN DropSender(tasks, active[e][trigger]) ELSE tasks,
                                    NewTask(e, trigger, "repeat", def, 0))

\* MacroEngine::start_macro
start_macro(e, trigger, def) ==
    LET t == Len(tasks) + 1 IN
    CASE def.macro_type = "RepeatOnHold" ->
            IF already_running(e, trigger)
            THEN UNCHANGED runnerVars
            ELSE /\ Len(tasks) < MaxTasks
                 /\ active' = [active EXCEPT ![e] = MapInsert(@, trigger, t)]
                 /\ tasks' = Append(IF trigger \in DOMAIN active[e]
                                    THEN DropSender(tasks, active[e][trigger]) ELSE tasks,
                                    NewTask(e, trigger, "repeat", def, def.initial_delay_ms))
                 /\ UNCHANGED toggle_state
      [] def.macro_type = "Sequence" ->
            /\ Len(tasks) < MaxTasks
            /\ tasks' = Append(tasks, NewTask(e, trigger, "sequence", def, 0))
            /\ UNCHANGED <<active, toggle_state>>
      [] def.macro_type = "Toggle" ->
            IF is_active(e, trigger)
            THEN /\ toggle_state' = [toggle_state EXCEPT ![e] = MapInsert(@, trigger, FALSE)]
                 /\ active' = [active EXCEPT ![e] = MapRemove(@, trigger)]
                 /\ tasks' = IF trigger \in DOMAIN active[e]
                             THEN SendCancel(tasks, active[e][trigger], "start") ELSE tasks
            ELSE /\ Len(tasks) < MaxTasks
                 /\ toggle_state' = [toggle_state EXCEPT ![e] = MapInsert(@, trigger, TRUE)]
                 /\ active' = [active EXCEPT ![e] = MapInsert(@, trigger, t)]
                 /\ tasks' = Append(IF trigger \in DOMAIN active[e]
                                    THEN DropSender(tasks, active[e][trigger]) ELSE tasks,
                                    NewTask(e, trigger, "repeat", def, 0))

\* MacroEngine::stop_macro
stop_macro(e, trigger) ==
    IF toggle_armed(e, trigger)
    THEN UNCHANGED runnerVars
    ELSE /\ active' = [active EXCEPT ![e] = MapRemove(@, trigger)]
         /\ tasks' = IF trigger \in DOMAIN active[e]
                     THEN SendCancel(tasks, active[e][trigger], "stop") ELSE tasks
         /\ UNCHANGED toggle_state

\* Faulty variant of stop_all: the tables are cleared but no timer is told.
stop_all_forgets(e) ==
    /\ active' = [active EXCEPT ![e] = EmptyMap]
    /\ toggle_state' = [toggle_state EXCEPT ![e] = EmptyMap]
    /\ UNCHANGED tasks

\* Faulty variant of stop_all: toggle_state is left as it is.
stop_all_keeps_toggle_state(e) ==
    /\ tasks' = SendCancelAll(tasks, {active[e][k] : k \in DOMAIN active[e]}, "stop_all")
    /\ active' = [active EXCEPT ![e] = EmptyMap]
    /\ UNCHANGED toggle_state

\* MacroEngine::stop_all
stop_all(e) ==
    /\ tasks' = SendCancelAll(tasks, {active[e][k] : k \in DOMAIN active[e]}, "stop_all")
    /\ active' = [active EXCEPT ![e] = EmptyMap]
    /\ toggle_state' = [toggle_state EXCEPT ![e] = EmptyMap]

\* Faulty variant of the drop: the tables go, the cancel senders stay alive.
drop_mapper_leaks(e) ==
    /\ active' = [active EXCEPT ![e] = EmptyMap]
    /\ toggle_state' = [toggle_state EXCEPT ![e] = EmptyMap]
    /\ UNCHANGED tasks

\* the drop of an EventMapper (and its MacroEngine) on which stop_all did not
\* run: every cancel sender in `active` is dropped without a send
drop_mapper(e) ==
    /\ tasks' = DropSenderAll(tasks, {active[e][k] : k \in DOMAIN active[e]})
    /\ active' = [active EXCEPT ![e] = EmptyMap]
    /\ toggle_state' = [toggle_state EXCEPT ![e] = EmptyMap]

\* ------------------------------------------------------------ event mapper
\* Faulty variants of the mapper's three results: a pass-through that builds
\* a fresh event (losing the timestamp), a remap that always presses, a macro
\* binding that lets the auto-repeat of the trigger through.
pass_through_rebuilt(event) ==
    [out |-> <<NewInputEvent(event.type, event.code, event.value)>>, call |-> "none"]
remap_always_press(target_key, value) ==
    [out |-> <<NewInputEvent(EV_KEY, target_key, 1)>>, call |-> "none"]
macro_dispatch_repeat_leaks(event) ==
    CASE event.value = 1 -> [out |-> <<>>, call |-> "start"]
      [] event.value = 0 -> [out |-> <<>>, call |-> "stop"]
      [] OTHER -> [out |-> <<event>>, call |-> "none"]
\* a macro binding that takes the auto-repeat of the trigger for a press
macro_dispatch_repeat_starts(event) ==
    CASE event.value = 0 -> [out |-> <<>>, call |-> "stop"]
      [] OTHER -> [out |-> <<>>, call |-> "start"]

\* `return Ok(vec![event])`
pass_through(event) == [out |-> <<event>>, call |-> "none"]

\* `InputEvent::new(EventType::KEY.0, target_key.code(), value)`, returned alone
remap(target_key, value) == [out |-> <<NewInputEvent(EV_KEY, target_key, value)>>, call |-> "none"]

\* `match value` of a macro binding: 1 starts, 0 stops, anything else is
\* swallowed; the event is consumed in each case
macro_dispatch(event) ==
    CASE event.value = 1 -> [out |-> <<>>, call |-> "start"]
      [] event.value = 0 -> [out |-> <<>>, call |-> "stop"]
      [] OTHER -> [out |-> <<>>, call |-> "none"]

\* Faulty variant of process_event: a macro binding consumes its event whether
\* or not the macro map holds the macro; an unknown macro starts nothing.
process_event_consumes_unknown(bnd, defs, event) ==
    LET key == event.code
        value == event.value
    IN  IF event.type # EV_KEY THEN pass_through(event)
        ELSE IF key \notin DOMAIN bnd THEN pass_through(event)
        ELSE IF bnd[key].tag = "Key"
             THEN IF keycode[bnd[key].key] >= 0
                  THEN remap(keycode[bnd[key].key], value)
                  ELSE pass_through(event)
        ELSE IF bnd[key].macro_name \in DOMAIN defs
             THEN macro_dispatch(event)
             ELSE [out |-> <<>>, call |-> "none"]

\* Faulty variant of process_event: a Key binding whose target does not parse
\* swallows the event.
process_event_drops_unparsed(bnd, defs, event) ==
    LET key == event.code
        value == event.value
    IN  IF event.type # EV_KEY THEN pass_through(event)
        ELSE IF key \notin DOMAIN bnd THEN pass_through(event)
        ELSE IF bnd[key].tag = "Key"
             THEN IF keycode[bnd[key].key] >= 0
                  THEN remap(keycode[bnd[key].key], value)
                  ELSE [out |-> <<>>, call |-> "none"]
        ELSE IF bnd[key].macro_name \in DOMAIN defs
             THEN macro_dispatch(event)
             ELSE pass_through(event)

\* EventMapper::process_event: the returned Vec and the call made on the macro
\* engine ("start" with the macro, "stop", or "none")
process_event(bnd, defs, event) ==
    LET key == event.code
        value == event.value
    IN  IF event.type # EV_KEY THEN pass_through(event)
        ELSE IF key \notin DOMAIN bnd THEN pass_through(event)
        ELSE IF bnd[key].tag = "Key"
             THEN IF keycode[bnd[key].key] >= 0
                  THEN remap(keycode[bnd[key].key], value)
                  ELSE pass_through(event)
        ELSE IF bnd[key].macro_name \in DOMAIN defs
             THEN macro_dispatch(event)
             ELSE pass_through(event)

IsBoundKey(bnd, ev) == ev.type = EV_KEY /\ ev.code \in DOMAIN bnd
IsMacroKey(bnd, ev) == IsBoundKey(bnd, ev) /\ bnd[ev.code].tag = "Macro"

\* -------------------------------------------------------------- the sink
\* VirtualDevice::emit of one batch by writer `by` (0: the engine loop, t: task t),
\* and its result: Ok, or an error while the device takes no writes
Write(snk, e, by, batch) ==
    [snk EXCEPT ![e] = [by |-> by, batch |-> batch, ok |-> accepting[e]]]
NoWrite == [by |-> 0, batch |-> <<>>, ok |-> TRUE]

KeyEvent(code, value) == NewInputEvent(EV_KEY, code, value)

\* a writer of engine e stands before a write to the virtual device: the
\* only moments at which the state of the device shows
AtWrite(e) ==
    \/ eng[e].pc = "emit"
    \/ \E t \in 1..Len(tasks) : tasks[t].eng = e /\ tasks[t].pc \in {"exec", "click2"}

\* the environment: writes to the uinput device start to fail / succeed again
SinkFault(e) ==
    /\ AtWrite(e)
    /\ accepting[e]
    /\ accepting' = [accepting EXCEPT ![e] = FALSE]
    /\ UNCHANGED <<keycode, calc, msgs, supVars, engVars, readerVars, runnerVars, sinkVars, histVars>>

SinkRecover(e) ==
    /\ AtWrite(e)
    /\ ~accepting[e]
    /\ accepting' = [accepting EXCEPT ![e] = TRUE]
    /\ UNCHANGED <<keycode, calc, msgs, supVars, engVars, readerVars, runnerVars, sinkVars, histVars>>

\* ------------------------------------------------------------ timer tasks
Tasks == 1..Len(tasks)

\* the first poll of a select! of run_repeat_macro, made as the task arrives
\* at it: with a change of the cancel channel to report, changed() is ready
\* and the sleep, whose deadline is still ahead, is not; otherwise both are
\* pending and the task waits for either (`armed`)
select_armed(task) == ~(task.cancel \/ task.closed)

\* the task moves on to `next`, and polls the select! if that is where it is
Arrive(task, next) ==
    [task EXCEPT !.pc = next,
                 !.armed = IF next = "sleep" THEN select_armed(task) ELSE @]

\* Faulty variant of the sleep branch: ready at the first poll of the select!.
TaskSleepElapsed_at_once(t) ==
    /\ tasks[t].kind = "repeat"
    /\ tasks[t].pc \in {"init_delay", "sleep"}
    /\ tasks' = [tasks EXCEPT ![t] = [Arrive(@, PcAt("repeat", @.actions, 1)) EXCEPT
                      !.idx = 1,
                      !.passes = IF (tasks[t].cancel \/ tasks[t].closed) /\ @ < 2
                                 THEN @ + 1 ELSE @]]
    /\ UNCHANGED <<keycode, calc, accepting, msgs, supVars, engVars, readerVars, active, toggle_state, sinkVars, histVars>>

\* run_repeat_macro: the sleep of the initial delay / of the interval elapses
\* in a select! that waited for it, and the next pass through the actions
\* begins (`passes`: the passes begun with the cancel sender gone)
TaskSleepElapsed(t) ==
    /\ tasks[t].kind = "repeat"
    /\ tasks[t].pc \in {"init_delay", "sleep"}
    /\ tasks[t].armed
    /\ tasks' = [tasks EXCEPT ![t] = [Arrive(@, PcAt("repeat", @.actions, 1)) EXCEPT
                      !.idx = 1,
                      !.passes = IF (tasks[t].cancel \/ tasks[t].closed) /\ @ < 2
                                 THEN @ + 1 ELSE @]]
    /\ UNCHANGED <<keycode, calc, accepting, msgs, supVars, engVars, readerVars, active, toggle_state, sinkVars, histVars>>

\* run_repeat_macro: cancel_rx.changed() completes in a select! (a value was
\* sent, or the sender is gone) and the task returns
TaskCancelled(t) ==
    /\ tasks[t].kind = "repeat"
    /\ tasks[t].pc \in {"init_delay", "sleep"}
    /\ tasks[t].cancel \/ tasks[t].closed
    /\ tasks' = [tasks EXCEPT ![t].pc = "done"]
    /\ UNCHANGED <<keycode, calc, accepting, msgs, supVars, engVars, readerVars, active, toggle_state, sinkVars, histVars>>

\* Faulty variant of the action loop's head: no look at the cancel flag.
TaskCheck_unchecked(t) ==
    /\ tasks[t].kind = "repeat"
    /\ tasks[t].pc = "loop"
    /\ tasks' = [tasks EXCEPT ![t].pc = "exec"]
    /\ UNCHANGED <<keycode, calc, accepting, msgs, supVars, engVars, readerVars, active, toggle_state, sinkVars, histVars>>

\* run_repeat_macro: the head of the action loop, `if *cancel_rx.borrow() { return; }`
TaskCheck(t) ==
    /\ tasks[t].kind = "repeat"
    /\ tasks[t].pc = "loop"
    /\ tasks' = [tasks EXCEPT ![t].pc = IF tasks[t].cancel THEN "done" ELSE "exec"]
    /\ UNCHANGED <<keycode, calc, accepting, msgs, supVars, engVars, readerVars, active, toggle_state, sinkVars, histVars>>

\* execute_action_async: the sleep of a Delay elapses
TaskSeqDelayElapsed(t) ==
    /\ tasks[t].kind = "sequence"
    /\ tasks[t].pc = "delay"
    /\ tasks' = [tasks EXCEPT ![t].pc = PcAt("sequence", tasks[t].actions, tasks[t].idx + 1),
                              ![t].idx = @ + 1]
    /\ UNCHANGED <<keycode, calc, accepting, msgs, supVars, engVars, readerVars, active, toggle_state, sinkVars, histVars>>

\* execute_action: lock the writer, perform the action, unlock; a failed write
\* is logged. A Click holds the lock over two writes; its second write is
\* TaskClick2, which a failure of the first skips (`?` in DeviceWriter::click).
TaskExec(t) ==
    LET e == tasks[t].eng
        a == tasks[t].actions[tasks[t].idx]
        key == IF a.tag = "Delay" THEN -1 ELSE keycode[a.arg]
        after == IF tasks[t].cancel /\ tasks[t].late < 3 THEN 1 ELSE 0
        next == PcAt(tasks[t].kind, tasks[t].actions, tasks[t].idx + 1)
    IN  /\ tasks[t].pc = "exec"
        /\ lock[e] = 0
        /\ IF key < 0
           THEN /\ tasks' = [tasks EXCEPT ![t] = [Arrive(@, next) EXCEPT !.idx = @ + 1]]
                /\ UNCHANGED sinkVars
           ELSE IF a.tag = "Click" /\ accepting[e]
           THEN /\ sink' = Write(sink, e, t, <<KeyEvent(key, 1), SynReport>>)
                /\ lock' = [lock EXCEPT ![e] = t]
                /\ tasks' = [tasks EXCEPT ![t].pc = "click2", ![t].late = @ + after]
           ELSE /\ sink' = Write(sink, e, t,
                                 <<KeyEvent(key, IF a.tag = "Release" THEN 0 ELSE 1), SynReport>>)
                /\ tasks' = [tasks EXCEPT ![t] = [Arrive(@, next) EXCEPT
                                  !.idx = @ + 1, !.late = @ + after]]
                /\ UNCHANGED lock
        /\ UNCHANGED <<keycode, calc, accepting, msgs, supVars, engVars, readerVars, active, toggle_state, histVars>>

\* DeviceWriter::click: the release frame, then the MutexGuard is dropped
TaskClick2(t) ==
    LET e == tasks[t].eng
        key == keycode[tasks[t].actions[tasks[t].idx].arg]
    IN  /\ tasks[t].pc = "click2"
        /\ sink' = Write(sink, e, t, <<KeyEvent(key, 0), SynReport>>)
        /\ lock' = [lock EXCEPT ![e] = 0]
        /\ tasks' = [tasks EXCEPT ![t] =
                        [Arrive(@, PcAt(@.kind, @.actions, @.idx + 1)) EXCEPT !.idx = @ + 1]]
        /\ UNCHANGED <<keycode, calc, accepting, msgs, supVars, engVars, readerVars, active, toggle_state, histVars>>

TaskStep(t) ==
    \/ TaskSleepElapsed(t)
    \/ TaskCancelled(t)
    \/ TaskCheck(t)
    \/ TaskSeqDelayElapsed(t)
    \/ TaskExec(t)
    \/ TaskClick2(t)

\* ----------------------------------------------------------- device reader
\* Faulty variant of the drop: the reader stays as it is.
DropReader_keeps(rd, e) == rd

\* the drop of a DeviceReader: Drop::drop ungrabs if `grabbed`, then the fd closes
DropReader(rd, e) == [rd EXCEPT ![e].pc = "exited", ![e].grabbed = FALSE]
GrabAfterDrop(e) == IF reader[e].grabbed /\ grab = e THEN 0 ELSE grab

\* the receiving end of engine e's event channel is alive
RxAlive(e) == eng[e].pc \in {"loop", "emit"}

\* Faulty variant of read_loop: the event goes to the front of the channel.
ReaderFetch_prepends(e, ev) ==
    /\ reader[e].pc = "fetch"
    /\ nread' = nread + 1
    /\ IF RxAlive(e)
       THEN /\ chan' = [chan EXCEPT ![e] = <<ev>> \o @]
            /\ UNCHANGED <<reader, grab>>
       ELSE /\ reader' = DropReader(reader, e)
            /\ grab' = GrabAfterDrop(e)
            /\ UNCHANGED chan
    /\ UNCHANGED <<keycode, calc, accepting, msgs, supVars, engVars, runnerVars, sinkVars, histVars>>

\* spawn_blocking: a thread of the blocking pool starts the closure
ReaderStart(e) ==
    /\ reader[e].pc = "queued"
    /\ reader' = [reader EXCEPT ![e].pc = "fetch"]
    /\ UNCHANGED <<keycode, calc, accepting, msgs, supVars, engVars, grab, chan, nread, runnerVars, sinkVars, histVars>>

\* read_loop: fetch_events returns an event and tx.send passes it on; a failed
\* send (receiver dropped) ends the loop and the reader is dropped
ReaderFetch(e, ev) ==
    /\ reader[e].pc = "fetch"
    /\ nread' = nread + 1
    /\ IF RxAlive(e)
       THEN /\ chan' = [chan EXCEPT ![e] = Append(@, ev)]
            /\ UNCHANGED <<reader, grab>>
       ELSE /\ reader' = DropReader(reader, e)
            /\ grab' = GrabAfterDrop(e)
            /\ UNCHANGED chan
    /\ UNCHANGED <<keycode, calc, accepting, msgs, supVars, engVars, runnerVars, sinkVars, histVars>>

\* read_loop: fetch_events fails with an I/O error other than WouldBlock
ReaderError(e) ==
    /\ reader[e].pc = "fetch"
    /\ reader' = [DropReader(reader, e) EXCEPT ![e].failed = TRUE]
    /\ grab' = GrabAfterDrop(e)
    /\ UNCHANGED <<keycode, calc, accepting, msgs, supVars, engVars, chan, nread, runnerVars, sinkVars, histVars>>

\* ------------------------------------------------------------- run_engine
\* the configuration files Config::load can find when an engine starts
DiskConfigs == {CfgHold}

\* first poll of the engine task (an aborted task that was never polled is
\* dropped instead, see EngineAborted): DeviceReader::open, DeviceWriter::from_source,
\* Config::load().unwrap_or_default(), EventMapper::new, load_config
EngineOpen(e) ==
    /\ eng[e].pc = "spawned"
    /\ ~eng[e].abort
    /\ \E cfg \in DiskConfigs \cup {ConfigDefault} : \E b \in load_config_bindings(cfg) :
          /\ bindings' = [bindings EXCEPT ![e] = b]
          /\ macro_defs' = [macro_defs EXCEPT ![e] = build_macro_map(cfg)]
    /\ eng' = [eng EXCEPT ![e].pc = "opened"]
    /\ reader' = [reader EXCEPT ![e] = [NoReader EXCEPT !.pc = "open"]]
    /\ UNCHANGED <<keycode, calc, accepting, msgs, supVars, grab, chan, nread, runnerVars, sinkVars, histVars>>

\* DeviceReader::open fails: run_engine returns the error, and the task sends
\* it as an Error observation
EngineOpenFail(e) ==
    /\ eng[e].pc = "spawned"
    /\ ~eng[e].abort
    /\ eng' = [eng EXCEPT ![e].pc = "open_failed"]
    /\ Send(Error(e, "Failed to open device"))
    /\ UNCHANGED <<keycode, calc, accepting, supVars, bindings, macro_defs, readerVars, runnerVars, sinkVars, histVars>>

\* DeviceWriter::from_source fails: run_engine returns the error, dropping
\* the reader it opened, which holds no grab; the task sends the error
EngineSinkFail(e) ==
    /\ eng[e].pc = "spawned"
    /\ ~eng[e].abort
    /\ eng' = [eng EXCEPT ![e].pc = "sink_failed"]
    /\ reader' = DropReader([reader EXCEPT ![e] = [NoReader EXCEPT !.pc = "open"]], e)
    /\ Send(Error(e, "Failed to build virtual device"))
    /\ UNCHANGED <<keycode, calc, accepting, supVars, bindings, macro_defs, grab, chan, nread, runnerVars, sinkVars, histVars>>

\* reader.grab()?, the status observation, then the event channel and
\* spawn_blocking(read_loop). EVIOCGRAB fails while another fd holds the grab;
\* run_engine then returns the error, dropping the reader, and the task sends it.
EngineGrab(e) ==
    /\ eng[e].pc = "opened"
    /\ IF grab = 0
       THEN /\ grab' = e
            /\ reader' = [reader EXCEPT ![e].pc = "queued", ![e].grabbed = TRUE]
            /\ eng' = [eng EXCEPT ![e].pc = "loop"]
            /\ Send(StatusUpdate(e, "Grabbed device"))
       ELSE /\ reader' = DropReader(reader, e)
            /\ eng' = [eng EXCEPT ![e].pc = "grab_failed"]
            /\ Send(Error(e, "Failed to grab device"))
            /\ UNCHANGED grab
    /\ UNCHANGED <<keycode, calc, accepting, supVars, bindings, macro_defs, chan, nread, runnerVars, sinkVars, histVars>>

\* Faulty variant of the event branch: only an event that yields output is
\* reported to the monitor.
EngineRecv_observes_output(e) ==
    /\ eng[e].pc = "loop"
    /\ chan[e] # <<>>
    /\ LET ev == Head(chan[e])
           r == process_event(bindings[e], macro_defs[e], ev)
           def == macro_defs[e][bindings[e][ev.code].macro_name]
       IN  /\ chan' = [chan EXCEPT ![e] = Tail(@)]
           /\ IF ev.type # EV_SYN /\ ev.type # EV_MSC /\ r.out # <<>>
              THEN Send(event_to_message(e, ev)) ELSE UNCHANGED msgs
           /\ CASE r.call = "start" -> start_macro(e, ev.code, def)
                [] r.call = "stop" -> stop_macro(e, ev.code)
                [] OTHER -> UNCHANGED runnerVars
           /\ eng' = [eng EXCEPT ![e].pending = r.out,
                                 ![e].pc = IF r.out = <<>> THEN "loop" ELSE "emit"]
           /\ last' = [last EXCEPT ![e] =
                         [ev |-> ev, out |-> r.out, call |-> r.call, n |-> @.n + 1,
                          hadActive |-> ev.code \in DOMAIN active[e],
                          wasArmed |-> MapGet(toggle_state[e], ev.code, FALSE),
                          spawned |-> Len(tasks') - Len(tasks),
                          changed |-> <<active, toggle_state, tasks>>' # <<active, toggle_state, tasks>>]]
           /\ passlog' = [passlog EXCEPT ![e] =
                            IF @.clean /\ ~IsBoundKey(bindings[e], ev)
                            THEN [@ EXCEPT !.evs = Append(@, ev)] ELSE Dirty]
           /\ keylog' = [keylog EXCEPT ![e] =
                            IF IsMacroKey(bindings[e], ev)
                            THEN Append(@, <<ev.code, ev.value>>) ELSE @]
    /\ UNCHANGED <<keycode, calc, accepting, supVars, bindings, macro_defs, reader, grab, nread, sinkVars>>

\* select!: event_rx.recv() yields an event: the observation for the monitor
\* (not for SYN and MSC events), then mapper.process_event
EngineRecv(e) ==
    /\ eng[e].pc = "loop"
    /\ chan[e] # <<>>
    /\ LET ev == Head(chan[e])
           r == process_event(bindings[e], macro_defs[e], ev)
           def == macro_defs[e][bindings[e][ev.code].macro_name]
       IN  /\ chan' = [chan EXCEPT ![e] = Tail(@)]
           /\ IF ev.type # EV_SYN /\ ev.type # EV_MSC
              THEN Send(event_to_message(e, ev)) ELSE UNCHANGED msgs
           /\ CASE r.call = "start" -> start_macro(e, ev.code, def)
                [] r.call = "stop" -> stop_macro(e, ev.code)
                [] OTHER -> UNCHANGED runnerVars
           /\ eng' = [eng EXCEPT ![e].pending = r.out,
                                 ![e].pc = IF r.out = <<>> THEN "loop" ELSE "emit"]
           /\ last' = [last EXCEPT ![e] =
                         [ev |-> ev, out |-> r.out, call |-> r.call, n |-> @.n + 1,
                          hadActive |-> ev.code \in DOMAIN active[e],
                          wasArmed |-> MapGet(toggle_state[e], ev.code, FALSE),
                          spawned |-> Len(tasks') - Len(tasks),
                          changed |-> <<active, toggle_state, tasks>>' # <<active, toggle_state, tasks>>]]
           /\ passlog' = [passlog EXCEPT ![e] =
                            IF @.clean /\ ~IsBoundKey(bindings[e], ev)
                            THEN [@ EXCEPT !.evs = Append(@, ev)] ELSE Dirty]
           /\ keylog' = [keylog EXCEPT ![e] =
                            IF IsMacroKey(bindings[e], ev)
                            THEN Append(@, <<ev.code, ev.value>>) ELSE @]
    /\ UNCHANGED <<keycode, calc, accepting, supVars, bindings, macro_defs, reader, grab, nread, sinkVars>>

\* Faulty variant of the engine loop's handling of emit's result: an error
\* ends the loop.
after_emit_breaks(ok) == IF ok THEN "loop" ELSE "done"

\* `if let Err(e) = w.emit(&output_events) { log::error!(..) }`: where the
\* engine loop goes after emit returned Ok / Err
after_emit(ok) == "loop"

\* Faulty variant of the engine loop's write: it does not take the lock.
EngineEmit_unlocked(e) ==
    /\ eng[e].pc = "emit"
    /\ sink' = Write(sink, e, 0, eng[e].pending)
    /\ passlog' = [passlog EXCEPT ![e] =
                     IF @.clean
                     THEN IF accepting[e] THEN [@ EXCEPT !.outs = @ \o eng[e].pending]
                          ELSE Dirty
                     ELSE @]
    /\ eng' = [eng EXCEPT ![e].pc = after_emit(accepting[e]), ![e].pending = <<>>]
    /\ UNCHANGED <<keycode, calc, accepting, msgs, supVars, bindings, macro_defs, readerVars, runnerVars, lock, last, keylog>>

\* `if let Ok(mut w) = writer.lock() { w.emit(&output_events) }`; a failed
\* emit is logged and the loop goes on
EngineEmit(e) ==
    /\ eng[e].pc = "emit"
    /\ lock[e] = 0
    /\ sink' = Write(sink, e, 0, eng[e].pending)
    /\ passlog' = [passlog EXCEPT ![e] =
                     IF @.clean
                     THEN IF accepting[e] THEN [@ EXCEPT !.outs = @ \o eng[e].pending]
                          ELSE Dirty
                     ELSE @]
    /\ eng' = [eng EXCEPT ![e].pc = after_emit(accepting[e]), ![e].pending = <<>>]
    /\ UNCHANGED <<keycode, calc, accepting, msgs, supVars, bindings, macro_defs, readerVars, runnerVars, lock, last, keylog>>

\* reader_handle.abort(): a blocking task that has not started is cancelled and
\* its closure, which owns the reader, is dropped; one that runs is unaffected
AbortReader(rd, e) == IF rd[e].pc = "queued" THEN DropReader(rd, e) ELSE rd
GrabAfterAbort(e) == IF reader[e].pc = "queued" THEN GrabAfterDrop(e) ELSE grab

\* select!: cancel_rx.changed() completes: mapper.stop_all(), break,
\* reader_handle.abort(), return Ok; on Ok the task sends an Error observation
EngineCancel(e) ==
    /\ eng[e].pc = "loop"
    /\ eng[e].cancel
    /\ stop_all(e)
    /\ reader' = AbortReader(reader, e)
    /\ grab' = GrabAfterAbort(e)
    /\ chan' = [chan EXCEPT ![e] = <<>>]
    /\ eng' = [eng EXCEPT ![e].pc = "done"]
    /\ Send(Error(e, "Engine stopped unexpectedly"))
    /\ UNCHANGED <<keycode, calc, accepting, supVars, bindings, macro_defs, nread, sinkVars, histVars>>

\* select!: event_rx.recv() yields None (the reader is gone): break, return Ok;
\* the mapper is dropped without stop_all; on Ok the task sends an Error
\* observation
EngineClosed(e) ==
    /\ eng[e].pc = "loop"
    /\ chan[e] = <<>>
    /\ reader[e].pc = "exited"
    /\ drop_mapper(e)
    /\ eng' = [eng EXCEPT ![e].pc = "done"]
    /\ Send(Error(e, "Engine stopped unexpectedly"))
    /\ UNCHANGED <<keycode, calc, accepting, supVars, bindings, macro_defs, readerVars, sinkVars, histVars>>

\* JoinHandle::abort takes effect: the runtime drops the engine future at a
\* yield point (before its first poll, or parked in select!) with all it owns:
\* event_rx, the mapper (stop_all does not run), the reader's JoinHandle
EngineAborted(e) ==
    /\ eng[e].abort
    /\ eng[e].pc \in {"spawned", "loop"}
    /\ IF eng[e].pc = "loop" THEN drop_mapper(e) ELSE UNCHANGED runnerVars
    /\ chan' = [chan EXCEPT ![e] = <<>>]
    /\ eng' = [eng EXCEPT ![e].pc = "dropped"]
    /\ UNCHANGED <<keycode, calc, accepting, msgs, supVars, bindings, macro_defs, reader, grab, nread, sinkVars, histVars>>

\* ------------------------------------------------------------- engine_task
FreeEngines == {e \in Engines : eng[e].pc = "none"}

\* `if let Some(tx) = cancel_tx.take() { tx.send(true) }` and
\* `if let Some(handle) = active_engine.take() { handle.abort() }`
StopCurrent(en, cmd) ==
    [e \in Engines |->
        [en[e] EXCEPT !.cancel = @ \/ (sup.cancel_tx = e),
                      !.abort = @ \/ (sup.active_engine = e),
                      !.stopped_by = IF sup.cancel_tx = e THEN cmd ELSE @]]

\* EngineCommand::Start(device_path)
SupStart ==
    /\ sup.pc = "recv"
    /\ ncmds < MaxCmds
    /\ FreeEngines # {}
    /\ LET n == Min(FreeEngines)
       IN  /\ eng' = [StopCurrent(eng, "Start") EXCEPT ![n].pc = "spawned"]
           /\ sup' = [sup EXCEPT !.cancel_tx = n, !.active_engine = n]
    /\ Send(StatusUpdate(0, "Engine started on " \o DevicePath))
    /\ ncmds' = ncmds + 1
    /\ UNCHANGED <<keycode, calc, accepting, bindings, macro_defs, readerVars, runnerVars, sinkVars, histVars>>

\* EngineCommand::Stop
SupStop ==
    /\ sup.pc = "recv"
    /\ ncmds < MaxCmds
    /\ eng' = StopCurrent(eng, "Stop")
    /\ sup' = [sup EXCEPT !.cancel_tx = 0, !.active_engine = 0]
    /\ Send(StatusUpdate(0, "Engine stopped"))
    /\ ncmds' = ncmds + 1
    /\ UNCHANGED <<keycode, calc, accepting, bindings, macro_defs, readerVars, runnerVars, sinkVars, histVars>>

\* Faulty variant of the ReloadConfig arm: the running engine's mapper loads
\* the configuration again.
SupReloadConfig_reloads ==
    /\ sup.pc = "recv"
    /\ ncmds < MaxCmds
    /\ Send(StatusUpdate(0, "Config reload requested (restart engine to apply)"))
    /\ ncmds' = ncmds + 1
    /\ \E cfg \in DiskConfigs \cup {ConfigDefault} : \E b \in load_config_bindings(cfg) :
          /\ bindings' = [e \in Engines |-> IF e = sup.active_engine THEN b ELSE bindings[e]]
          /\ macro_defs' = [e \in Engines |-> IF e = sup.active_engine
                                                THEN build_macro_map(cfg) ELSE macro_defs[e]]
    /\ UNCHANGED <<keycode, calc, accepting, sup, eng, readerVars, runnerVars, sinkVars, histVars>>

\* EngineCommand::ReloadConfig
SupReloadConfig ==
    /\ sup.pc = "recv"
    /\ ncmds < MaxCmds
    /\ Send(StatusUpdate(0, "Config reload requested (restart engine to apply)"))
    /\ ncmds' = ncmds + 1
    /\ UNCHANGED <<keycode, calc, accepting, sup, engVars, readerVars, runnerVars, sinkVars, histVars>>

\* EngineCommand::Shutdown, or the command channel closed: no observation
SupShutdown ==
    /\ sup.pc = "recv"
    /\ ncmds < MaxCmds
    /\ eng' = StopCurrent(eng, "Shutdown")
    /\ sup' = [pc |-> "exited", cancel_tx |-> 0, active_engine |-> 0]
    /\ ncmds' = ncmds + 1
    /\ UNCHANGED <<keycode, calc, accepting, msgs, bindings, macro_defs, readerVars, runnerVars, sinkVars, histVars>>

\* main: tui::run has returned (it sent Shutdown), runtime.shutdown_timeout(2 s),
\* return: the process ends, and the kernel closes its fds and so drops the grab
ProcessExit ==
    /\ sup.pc = "exited"
    /\ sup' = [sup EXCEPT !.pc = "terminated"]
    /\ grab' = 0
    /\ reader' = [e \in Engines |-> IF reader[e].pc = "none" THEN reader[e]
                                     ELSE [reader[e] EXCEPT !.pc = "exited", !.grabbed = FALSE]]
    /\ UNCHANGED <<keycode, calc, accepting, msgs, ncmds, engVars, chan, nread, runnerVars, sinkVars, histVars>>

Alive == sup.pc # "terminated"

\* ------------------------------------------------------- specifications
EngineStep(e) ==
    \/ EngineOpen(e)
    \/ EngineOpenFail(e)
    \/ EngineSinkFail(e)
    \/ EngineGrab(e)
    \/ EngineRecv(e)
    \/ EngineEmit(e)
    \/ EngineCancel(e)
    \/ EngineClosed(e)
    \/ EngineAborted(e)

\* the events the whole-system specification feeds: a trigger press and a
\* SYN_REPORT
SysEvents == {Ev(EV_KEY, BTN_SIDE, 1, 1), Ev(EV_SYN, 0, 0, 1)}

ReaderStep(e) ==
    \/ ReaderStart(e)
    \/ \E ev \in SysEvents : nread < MaxSysEvents /\ Len(chan[e]) < MaxChan /\ ReaderFetch(e, ev)
    \/ ReaderError(e)

\* the process after main has spawned engine_task: no engine yet
Idle ==
    /\ keycode = [n \in ConfigNames |-> parse_key_name(n)]
    /\ sup = [pc |-> "recv", cancel_tx |-> 0, active_engine |-> 0]
    /\ ncmds = 0
    /\ eng = [e \in Engines |-> NoEngine]
    /\ reader = [e \in Engines |-> NoReader]
    /\ grab = 0
    /\ chan = [e \in Engines |-> <<>>]
    /\ nread = 0
    /\ bindings = [e \in Engines |-> EmptyMap]
    /\ macro_defs = [e \in Engines |-> EmptyMap]
    /\ active = [e \in Engines |-> EmptyMap]
    /\ toggle_state = [e \in Engines |-> EmptyMap]
    /\ tasks = <<>>
    /\ lock = [e \in Engines |-> 0]
    /\ sink = [e \in Engines |-> NoWrite]
    /\ last = [e \in Engines |-> NoLast]
    /\ passlog = [e \in Engines |-> Clean]
    /\ keylog = [e \in Engines |-> <<>>]
    /\ msgs = [p \in {0} \cup Engines |-> <<>>]
    /\ accepting = [e \in Engines |-> TRUE]

Init == Idle /\ calc = NoCalc

Next ==
    \/ SupStart
    \/ SupStop
    \/ SupReloadConfig
    \/ SupShutdown
    \/ \E e \in Engines : Alive /\ EngineStep(e)
    \/ \E e \in Engines : Alive /\ ReaderStep(e)
    \/ \E t \in Tasks : Alive /\ TaskStep(t)
    \/ \E e \in Engines : Alive /\ (SinkFault(e) \/ SinkRecover(e))
    \/ ProcessExit

Spec == Init /\ [][Next]_vars

\* What the scheduling guarantees: the runtime polls every spawned task that
\* can run, the blocking pool starts the reader closure, a sleep elapses, a
\* blocked Mutex::lock returns once the holder unlocks (its critical section
\* contains no suspension), and after Shutdown the process ends. No fairness is
\* assumed of the environment: commands, source events, I/O errors.
TaskFairness ==
    \A t \in 1..MaxTasks :
        /\ WF_vars(t \in Tasks /\ Alive /\ TaskStep(t))
        /\ SF_vars(t \in Tasks /\ Alive /\ TaskExec(t))
EngineFairness ==
    \A e \in Engines :
        /\ WF_vars(Alive /\ (EngineOpen(e) \/ EngineGrab(e) \/ EngineRecv(e) \/ EngineCancel(e)
                              \/ EngineClosed(e) \/ EngineAborted(e)))
        /\ SF_vars(Alive /\ EngineEmit(e))
        /\ WF_vars(Alive /\ ReaderStart(e))

FairSpec == Spec /\ TaskFairness /\ EngineFairness /\ WF_vars(ProcessExit)

\* One engine in its event loop: Start has been handled and run_engine has
\* loaded configuration cfg, grabbed the device and started its reader thread.
Running(cfgs) ==
    /\ keycode = [n \in ConfigNames |-> parse_key_name(n)]
    /\ sup = [pc |-> "recv", cancel_tx |-> 1, active_engine |-> 1]
    /\ ncmds = 1
    /\ eng = [e \in Engines |-> IF e = 1 THEN [NoEngine EXCEPT !.pc = "loop"] ELSE NoEngine]
    /\ reader = [e \in Engines |-> IF e = 1 THEN [NoReader EXCEPT !.pc = "fetch", !.grabbed = TRUE]
                                     ELSE NoReader]
    /\ grab = 1
    /\ chan = [e \in Engines |-> <<>>]
    /\ nread = 0
    /\ \E cfg \in cfgs : \E b \in load_config_bindings(cfg) :
          /\ bindings = [e \in Engines |-> IF e = 1 THEN b ELSE EmptyMap]
          /\ macro_defs = [e \in Engines |-> IF e = 1 THEN build_macro_map(cfg) ELSE EmptyMap]
    /\ active = [e \in Engines |-> EmptyMap]
    /\ toggle_state = [e \in Engines |-> EmptyMap]
    /\ tasks = <<>>
    /\ lock = [e \in Engines |-> 0]
    /\ sink = [e \in Engines |-> NoWrite]
    /\ last = [e \in Engines |-> NoLast]
    /\ passlog = [e \in Engines |-> Clean]
    /\ keylog = [e \in Engines |-> <<>>]
    /\ msgs = [p \in {0} \cup Engines |->
                  CASE p = 0 -> <<StatusUpdate(0, "Engine started on " \o DevicePath)>>
                    [] p = 1 -> <<StatusUpdate(1, "Grabbed device")>>
                    [] OTHER -> <<>>]
    /\ accepting = [e \in Engines |-> TRUE]
    /\ calc = NoCalc

\* The mapper specification: every configuration, every source event.
MapperInit == Running(Configs)

MapperNext ==
    \/ SupStop
    \/ \E ev \in SourceEvents : nread < MaxEvents /\ Len(chan[1]) < MaxChan /\ ReaderFetch(1, ev)
    \/ EngineRecv(1)
    \/ EngineEmit(1)
    \/ EngineCancel(1)
    \/ EngineAborted(1)
    \/ \E t \in Tasks : TaskStep(t)

MapperSpec == MapperInit /\ [][MapperNext]_vars

\* The runner specification: the configurations that bind BTN_SIDE to a macro,
\* fed the KEY events of that trigger.
RunnerConfigs == {CfgHold, CfgToggle}
TriggerEvents == {Ev(EV_KEY, BTN_SIDE, v, 1) : v \in {0, 1, 2}}

RunnerInit == Running(RunnerConfigs)

RunnerNext ==
    \/ SupStop
    \/ \E ev \in TriggerEvents : nread < MaxKeyEvents /\ Len(chan[1]) < MaxChan /\ ReaderFetch(1, ev)
    \/ EngineRecv(1)
    \/ EngineCancel(1)
    \/ EngineAborted(1)
    \/ \E t \in Tasks : TaskStep(t)

RunnerSpec == RunnerInit /\ [][RunnerNext]_vars

\* The hold specification: one engine with the RepeatOnHold configuration, fed
\* presses, releases and auto-repeats of its trigger, its timer tasks scheduled
\* fairly.
HoldInit == Running({CfgHold})

HoldNext ==
    \/ \E ev \in TriggerEvents : nread < MaxHoldEvents /\ Len(chan[1]) < MaxChan /\ ReaderFetch(1, ev)
    \/ EngineRecv(1)
    \/ \E t \in Tasks : TaskStep(t)

FairHoldSpec == HoldInit /\ [][HoldNext]_vars /\ TaskFairness

\* A repeat task whose cancel channel has a change to report leaves its sleep
\* through the cancel branch: changed() is ready the moment the select! is
\* entered, a sleep of a millisecond or more is not, and of two ready branches
\* select! picks at random.
CancelFairness == \A t \in 1..MaxTasks : SF_vars(t \in Tasks /\ TaskCancelled(t))

\* The shutdown specification: one engine with the RepeatOnHold configuration,
\* fed the events of its trigger, and a Shutdown command at any moment; the
\* engine task and the timer tasks are scheduled fairly. It ends before main
\* shuts the runtime down, so what it shows is the work of the cancellation.
ShutdownInit == Running({CfgHold})

ShutdownNext ==
    \/ \E ev \in TriggerEvents : nread < MaxHoldEvents /\ Len(chan[1]) < MaxChan /\ ReaderFetch(1, ev)
    \/ EngineRecv(1)
    \/ SupShutdown
    \/ EngineCancel(1)
    \/ EngineAborted(1)
    \/ \E t \in Tasks : TaskStep(t)

FairShutdownSpec ==
    /\ ShutdownInit /\ [][ShutdownNext]_vars
    /\ TaskFairness /\ CancelFairness
    /\ WF_vars(EngineRecv(1) \/ EngineCancel(1) \/ EngineAborted(1))

\* The reader-failure specification: one engine with a RepeatOnHold or a
\* Toggle configuration, fed the events of its trigger; the read loop can fail
\* at any moment, and the user can stop the engine at any moment; the engine
\* task and the timer tasks are scheduled fairly.
ReaderFailInit == Running(RunnerConfigs)

ReaderFailNext ==
    \/ \E ev \in TriggerEvents : nread < MaxFailEvents /\ Len(chan[1]) < MaxChan /\ ReaderFetch(1, ev)
    \/ ReaderError(1)
    \/ EngineRecv(1)
    \/ EngineClosed(1)
    \/ SupStop
    \/ EngineCancel(1)
    \/ EngineAborted(1)
    \/ \E t \in Tasks : TaskStep(t)

FairReaderFailSpec ==
    /\ ReaderFailInit /\ [][ReaderFailNext]_vars
    /\ TaskFairness /\ CancelFairness
    /\ WF_vars(EngineRecv(1) \/ EngineClosed(1) \/ EngineCancel(1) \/ EngineAborted(1))

\* The sink-failure specification: one engine with the RepeatOnHold
\* configuration, fed presses and releases of its trigger and SYN_REPORTs,
\* which pass through; the virtual device refuses writes now and then.
FaultEvents ==
    {Ev(EV_KEY, BTN_SIDE, v, 1) : v \in {0, 1}} \cup {Ev(EV_SYN, 0, 0, 1)}

SinkFailInit == Running({CfgHold})

SinkFailNext ==
    \/ \E ev \in FaultEvents : nread < MaxHoldEvents /\ Len(chan[1]) < MaxChan /\ ReaderFetch(1, ev)
    \/ EngineRecv(1)
    \/ EngineEmit(1)
    \/ SinkFault(1)
    \/ SinkRecover(1)
    \/ \E t \in Tasks : TaskStep(t)

SinkFailSpec == SinkFailInit /\ [][SinkFailNext]_vars

\* The duplicate-binding specification: one engine that loaded CfgDup, fed the
\* events of the buttons it binds.
DupEvents ==
    {Ev(EV_KEY, c, v, 1) : c \in {BTN_LEFT, BTN_SIDE}, v \in {0, 1}} \cup {Ev(EV_SYN, 0, 0, 1)}

DupInit == Running({CfgDup})

DupNext ==
    \/ \E ev \in DupEvents : nread < MaxEvents /\ Len(chan[1]) < MaxChan /\ ReaderFetch(1, ev)
    \/ EngineRecv(1)
    \/ EngineEmit(1)

DupSpec == DupInit /\ [][DupNext]_vars

\* The ordering specification: one engine with a remapping or a Sequence
\* configuration; the reader queues up to MaxOrderChan events, each stamped
\* with its position in the order the device produced them.
OrderConfigs == {CfgRemap, CfgSeq}

OrderEvents ==
    {Ev(EV_KEY, c, 1, 1) : c \in {BTN_SIDE, BTN_EXTRA, BTN_LEFT}}
    \cup {Ev(EV_SYN, 0, 0, 1), Ev(EV_REL, 0, 5, 1), Ev(EV_MSC, 4, 7, 1)}

OrderInit == Running(OrderConfigs)

OrderNext ==
    \/ \E ev \in OrderEvents :
          /\ nread < MaxOrderEvents
          /\ Len(chan[1]) < MaxOrderChan
          /\ ReaderFetch(1, [ev EXCEPT !.time = nread + 1])
    \/ EngineRecv(1)
    \/ EngineEmit(1)
    \/ \E t \in Tasks : TaskStep(t)

OrderSpec == OrderInit /\ [][OrderNext]_vars

\* The codec specification: parse_key_name applied to a name, key_name to the
\* code it gave, and parse_key_name to that display string. The names are
\* those of the tables, other spellings of some, raw codes and unknown names.
CodecNames ==
    {p[1] : p \in ButtonTable \cup KeyTable}
    \cup {"btn_left", "Btn_Side", "a", "key_a", "Key_Enter", "leftctrl", "f12", "1",
          "0", "55", "272", "300", "+30", "65535", "65536", "-1", "", "bogus",
          "KEY_KPASTERISK", "KEY_", "BTN_", "LEFT", "MOUSE"}

CodecInit ==
    /\ Idle
    /\ \E n \in CodecNames : calc = [pc |-> "input", name |-> n]

CodecParse ==
    /\ calc.pc = "input"
    /\ calc' = [pc |-> "parsed", name |-> calc.name, code |-> parse_key_name(calc.name)]
    /\ UNCHANGED <<keycode, accepting, msgs, supVars, engVars, readerVars, runnerVars, sinkVars, histVars>>

CodecName ==
    /\ calc.pc = "parsed"
    /\ calc.code >= 0
    /\ calc' = [pc |-> "named", name |-> calc.name, code |-> calc.code,
                shown |-> key_name(calc.code)]
    /\ UNCHANGED <<keycode, accepting, msgs, supVars, engVars, readerVars, runnerVars, sinkVars, histVars>>

CodecReparse ==
    /\ calc.pc = "named"
    /\ calc' = [pc |-> "reparsed", name |-> calc.name, code |-> calc.code,
                shown |-> calc.shown, back |-> parse_key_name(calc.shown)]
    /\ UNCHANGED <<keycode, accepting, msgs, supVars, engVars, readerVars, runnerVars, sinkVars, histVars>>

CodecNext == CodecParse \/ CodecName \/ CodecReparse

CodecSpec == CodecInit /\ [][CodecNext]_vars

\* The delay specification: one engine whose RepeatOnHold macro has a Delay in
\* its body, fed the events of the trigger.
DelayInit == Running({CfgDelay})

DelayNext ==
    \/ \E ev \in TriggerEvents : nread < MaxHoldEvents /\ Len(chan[1]) < MaxChan /\ ReaderFetch(1, ev)
    \/ EngineRecv(1)
    \/ \E t \in Tasks : TaskStep(t)

DelaySpec == DelayInit /\ [][DelayNext]_vars

\* The sequence specification: one engine with a Sequence configuration, fed
\* the events of the trigger, its tasks scheduled fairly.
SeqConfigs == {CfgSeq, CfgSeqClick}

SeqInit == Running(SeqConfigs)

SeqNext ==
    \/ \E ev \in TriggerEvents : nread < MaxHoldEvents /\ Len(chan[1]) < MaxChan /\ ReaderFetch(1, ev)
    \/ EngineRecv(1)
    \/ \E t \in Tasks : TaskStep(t)

FairSeqSpec == SeqInit /\ [][SeqNext]_vars /\ TaskFairness

\* Faulty variant of the clear: the map keeps its entries.
cleared_keeps(map) == map

\* HashMap::clear at the head of load_config
cleared(map) == EmptyMap

\* the entries of `new` inserted into `old`
Inserted(old, new) ==
    [k \in DOMAIN old \cup DOMAIN new |-> IF k \in DOMAIN new THEN new[k] ELSE old[k]]

\* The load specification: EventMapper::load_config applied to a mapper, up to
\* MaxLoads times, with a configuration drawn anew each time.
LoadConfigs == Configs \cup {CfgDup, CfgDelay, CfgSeqClick, ConfigDefault}

LoadInit ==
    /\ Idle
    /\ calc = [pc |-> "mapper", bindings |-> EmptyMap, macro_defs |-> EmptyMap, loaded |-> <<>>]

\* EventMapper::load_config
LoadConfig(cfg) ==
    /\ calc.pc = "mapper"
    /\ Len(calc.loaded) < MaxLoads
    /\ \E b \in load_config_bindings(cfg) :
          calc' = [pc |-> "mapper",
                   bindings |-> Inserted(cleared(calc.bindings), b),
                   macro_defs |-> build_macro_map(cfg),
                   loaded |-> Append(calc.loaded, cfg)]
    /\ UNCHANGED <<keycode, accepting, msgs, supVars, engVars, readerVars, runnerVars, sinkVars, histVars>>

LoadNext == \E cfg \in LoadConfigs : LoadConfig(cfg)

LoadSpec == LoadInit /\ [][LoadNext]_vars

\* Faulty variant of the jittered sleep: the sum is not kept at 1 or above.
sleep_ms_unclamped(interval_ms, jitter_ms, offset) ==
    IF jitter_ms > 0 THEN interval_ms + offset ELSE interval_ms

\* run_repeat_macro: the sleep between two passes, in milliseconds, for the
\* offset the generator drew: (base_ms + offset).max(1) with jitter, the
\* interval itself without. (The sums of the model's bounded values are far
\* from the limits of i64.)
sleep_ms(interval_ms, jitter_ms, offset) ==
    IF jitter_ms > 0 THEN Max({interval_ms + offset, 1}) ELSE interval_ms

\* The jitter specification: the sleep computed for an interval and a jitter
\* of a macro definition, the jitter below, at and above the interval.
JitterInit ==
    /\ Idle
    /\ \E i \in 0..MaxIntervalMs : \E j \in 0..MaxJitterMs :
          calc = [pc |-> "jitter", interval_ms |-> i, jitter_ms |-> j]

\* rng.gen_range(-jitter..=jitter) and the computation of the sleep
JitterSleep ==
    /\ calc.pc = "jitter"
    /\ \E offset \in (0 - calc.jitter_ms)..calc.jitter_ms :
          calc' = [pc |-> "sleep", interval_ms |-> calc.interval_ms, jitter_ms |-> calc.jitter_ms,
                   sleep_ms |-> sleep_ms(calc.interval_ms, calc.jitter_ms, offset)]
    /\ UNCHANGED <<keycode, accepting, msgs, supVars, engVars, readerVars, runnerVars, sinkVars, histVars>>

\* the sleep is over and the next pass computes its own
JitterAgain ==
    /\ calc.pc = "sleep"
    /\ calc' = [pc |-> "jitter", interval_ms |-> calc.interval_ms, jitter_ms |-> calc.jitter_ms]
    /\ UNCHANGED <<keycode, accepting, msgs, supVars, engVars, readerVars, runnerVars, sinkVars, histVars>>

JitterNext == JitterSleep \/ JitterAgain

JitterSpec == JitterInit /\ [][JitterNext]_vars

\* ------------------------------------------------------- the monitor (TUI)
\* App::new: the capacity of the monitor buffer; poll_engine_messages: the
\* most messages one call takes from the observation channel
monitor_max_events == 500
MAX_MESSAGES_PER_TICK == 200

\* poll_engine_messages, the body of the `Ok(msg)` arm: what one message does
\* to the App. (`kept` is history: the messages pushed to the buffer since it
\* was last cleared.)
handle_message(app, msg) ==
    CASE msg.tag = "StatusUpdate" -> [app EXCEPT !.status_message = msg.text]
      [] msg.tag = "Error" ->
            [app EXCEPT !.status_message = "ERROR: " \o msg.text, !.engine_running = FALSE]
      [] OTHER ->
            IF app.capturing /\ msg.event_type = "EV_KEY" /\ msg.value = 1
            THEN [app EXCEPT !.captured = <<msg.code>>, !.capturing = FALSE,
                             !.status_message = "Captured"]
            ELSE IF ~app.monitor_paused
                 THEN [app EXCEPT !.monitor_events = Append(@, msg),
                                  !.kept = Append(@, msg)]
                 ELSE app

\* poll_engine_messages, the messages lo..hi of one call handled in order.
\* (The range is halved and the App after the first half is looked at before
\* the second half is handled, so that the evaluation stays shallow.)
RECURSIVE handle_messages(_, _, _, _)
handle_messages(app, taken, lo, hi) ==
    IF lo > hi THEN app
    ELSE IF lo = hi THEN handle_message(app, taken[lo])
    ELSE LET mid == (lo + hi) \div 2
             half == handle_messages(app, taken, lo, mid)
         IN  IF half.pc = "app" THEN handle_messages(half, taken, mid + 1, hi) ELSE half

\* poll_engine_messages, `while processed < MAX_MESSAGES_PER_TICK`: try_recv
\* until the channel is empty or the cap is reached
poll_loop(app) ==
    LET processed == IF Len(app.rx) < MAX_MESSAGES_PER_TICK THEN Len(app.rx)
                     ELSE MAX_MESSAGES_PER_TICK
        taken == SubSeq(app.rx, 1, processed)
        rest == SubSeq(app.rx, processed + 1, Len(app.rx))
    IN  handle_messages([app EXCEPT !.rx = rest, !.processed = processed], taken, 1, processed)

\* Faulty variant of the trim: the oldest entries are the ones kept.
trim_keeps_oldest(events) ==
    IF Len(events) > monitor_max_events
    THEN SubSeq(events, 1, monitor_max_events)
    ELSE events

\* poll_engine_messages, the trim at the end: `drain(..drain_count)`
trim(events) ==
    IF Len(events) > monitor_max_events
    THEN SubSeq(events, Len(events) - monitor_max_events + 1, Len(events))
    ELSE events

\* App::poll_engine_messages
poll_engine_messages(app) ==
    LET polled == poll_loop(app)
    IN  [polled EXCEPT !.monitor_events = trim(@)]

\* The monitor specification: the App with its observation receiver in place
\* and its engine started, an engine that sends bursts of pointer motion and single messages (a
\* button press, a status line, an error); the loop of the UI polls, and the
\* user pauses and clears the monitor and starts a capture.
MonitorMessages(n) ==
    { event_to_message(1, Ev(EV_KEY, BTN_LEFT, 1, n)),
      StatusUpdate(1, "Grabbed device"),
      Error(1, "Engine stopped unexpectedly") }

MonitorInit ==
    /\ Idle
    /\ calc = [pc |-> "app", rx |-> <<>>, monitor_events |-> <<>>, monitor_paused |-> FALSE,
               capturing |-> FALSE, captured |-> <<>>,
               status_message |-> "Press ? for help",
               engine_running |-> TRUE, processed |-> 0, kept |-> <<>>,
               sent |-> 0, bursts |-> 0, singles |-> 0]

\* the engine sends BurstLen observations of pointer motion, the n-th
\* observation of the run being a motion by n
MonitorBurst ==
    /\ calc.pc = "app"
    /\ calc.bursts < MaxBursts
    /\ calc' = [calc EXCEPT
                  !.rx = @ \o [i \in 1..BurstLen |->
                                  event_to_message(1, Ev(EV_REL, 0, calc.sent + i, calc.sent + i))],
                  !.sent = @ + BurstLen, !.bursts = @ + 1]
    /\ UNCHANGED <<keycode, accepting, msgs, supVars, engVars, readerVars, runnerVars, sinkVars, histVars>>

\* the engine sends one message
MonitorSend ==
    /\ calc.pc = "app"
    /\ calc.singles < MaxSingles
    /\ \E m \in MonitorMessages(calc.sent + 1) :
          calc' = [calc EXCEPT !.rx = Append(@, m), !.sent = @ + 1, !.singles = @ + 1]
    /\ UNCHANGED <<keycode, accepting, msgs, supVars, engVars, readerVars, runnerVars, sinkVars, histVars>>

\* run_loop: one turn of the UI loop calls poll_engine_messages
MonitorPoll ==
    /\ calc.pc = "app"
    /\ calc' = poll_engine_messages(calc)
    /\ UNCHANGED <<keycode, accepting, msgs, supVars, engVars, readerVars, runnerVars, sinkVars, histVars>>

\* handle_monitor_input, 'p': pause / resume
MonitorPause ==
    /\ calc.pc = "app"
    /\ calc' = [calc EXCEPT !.monitor_paused = ~@,
                            !.status_message = IF calc.monitor_paused THEN "Monitor resumed"
                                               ELSE "Monitor paused"]
    /\ UNCHANGED <<keycode, accepting, msgs, supVars, engVars, readerVars, runnerVars, sinkVars, histVars>>

\* handle_monitor_input, 'c': clear
MonitorClear ==
    /\ calc.pc = "app"
    /\ calc.monitor_events # <<>>
    /\ calc' = [calc EXCEPT !.monitor_events = <<>>, !.kept = <<>>,
                            !.status_message = "Monitor cleared"]
    /\ UNCHANGED <<keycode, accepting, msgs, supVars, engVars, readerVars, runnerVars, sinkVars, histVars>>

\* App::start_capture
MonitorCapture ==
    /\ calc.pc = "app"
    /\ ~calc.capturing
    /\ calc' = IF ~calc.engine_running
               THEN [calc EXCEPT !.status_message = "Start the engine first to capture buttons!"]
               ELSE [calc EXCEPT !.capturing = TRUE,
                                 !.status_message = "Press a mouse button to capture... (Esc to cancel)"]
    /\ UNCHANGED <<keycode, accepting, msgs, supVars, engVars, readerVars, runnerVars, sinkVars, histVars>>

MonitorNext ==
    \/ MonitorBurst
    \/ MonitorSend
    \/ MonitorPoll
    \/ MonitorPause
    \/ MonitorClear
    \/ MonitorCapture

MonitorSpec == MonitorInit /\ [][MonitorNext]_vars

\* The reload specification: one engine with the RepeatOnHold configuration,
\* fed the events of its trigger; the user asks for a reload of the
\* configuration or starts the engine afresh, and an engine that starts loads
\* whatever configuration it then finds.
ReloadInit == Running({CfgHold})

ReloadNext ==
    \/ \E ev \in TriggerEvents : nread < MaxHoldEvents /\ Len(chan[1]) < MaxChan /\ ReaderFetch(1, ev)
    \/ SupReloadConfig
    \/ SupStart
    \/ \E e \in Engines :
          \/ EngineOpen(e)
          \/ EngineGrab(e)
          \/ EngineRecv(e)
          \/ EngineCancel(e)
          \/ EngineAborted(e)
    \/ \E t \in Tasks : TaskStep(t)

ReloadSpec == ReloadInit /\ [][ReloadNext]_vars

\* The start-up specification: Start commands, one after the other, and the
\* engines they spawn up to their event loops, with every failure of the
\* start-up: open, sink build, and the grab the previous engine's reader
\* still holds.
StartupNext ==
    \/ SupStart
    \/ \E e \in Engines :
          \/ EngineOpen(e)
          \/ EngineOpenFail(e)
          \/ EngineSinkFail(e)
          \/ EngineGrab(e)
          \/ EngineCancel(e)
          \/ EngineAborted(e)
          \/ ReaderStart(e)
          \/ \E ev \in SysEvents :
                nread < MaxSysEvents /\ Len(chan[e]) < MaxChan /\ ReaderFetch(e, ev)

StartupSpec == Init /\ [][StartupNext]_vars

\* ------------------------------------------------------------- properties
MacroOf(e, k) == macro_defs[e][bindings[e][k].macro_name]

\* code k is bound, in engine e, to a macro that exists and has the given type
HasMacro(e, k, type) ==
    /\ k \in DOMAIN bindings[e]
    /\ bindings[e][k].tag = "Macro"
    /\ bindings[e][k].macro_name \in DOMAIN macro_defs[e]
    /\ MacroOf(e, k).macro_type = type

\* engine e has processed an event, and the last one was KEY k with value v
LastKey(e, k, v) ==
    /\ last[e].n > 0
    /\ last[e].ev.type = EV_KEY
    /\ last[e].ev.code = k
    /\ last[e].ev.value = v

TasksOf(e, k) == {t \in Tasks : tasks[t].eng = e /\ tasks[t].trigger = k}
Presses(log, k) == Cardinality({i \in 1..Len(log) : log[i] = <<k, 1>>})

\* engine e is over (or was aborted before it ever ran), its reader gone and
\* its grab released, its timers done
Stopped(e) ==
    /\ \/ eng[e].pc \in {"done", "dropped", "open_failed", "sink_failed", "grab_failed"}
       \/ eng[e].pc = "spawned" /\ eng[e].abort
    /\ reader[e].pc \in {"none", "exited"}
    /\ grab # e
    /\ \A t \in Tasks : tasks[t].eng = e => tasks[t].pc = "done"

\* engine p had grabbed the source and started its reader when a Start
\* command replaced it
Restarted(p) ==
    /\ eng[p].stopped_by = "Start"
    /\ reader[p].pc \in {"queued", "fetch", "exited"}

\* C1: once Stop or Shutdown has been handled for a running engine, the
\* exclusive grab it holds on the source is eventually released, whether or
\* not the source produces another event. (Refuted: after Stop the reader
\* thread stays in fetch_events with the grab until an event arrives.)
C1_GrabEventuallyReleased ==
    \A e \in Engines :
        (eng[e].stopped_by \in {"Stop", "Shutdown"} /\ grab = e) ~> (grab # e)

\* C2: when Start arrives while an engine runs, the previous engine is fully
\* stopped (task over, reader gone, grab released, timers done) before the new
\* engine opens or grabs the source, and the new engine's grab does not fail on
\* the grab the previous one still holds. (Refuted: Start does not wait.)
C2_RestartStopsPrevious ==
    \A e \in Engines :
        /\ eng[e].pc \in {"opened", "loop", "emit"} =>
              \A p \in Engines \ {e} : Restarted(p) => Stopped(p)
        /\ eng[e].pc = "grab_failed" =>
              ~ \E p \in Engines \ {e} : Restarted(p) /\ grab = p

\* C3: a repeat task begins no action after its cancellation has been
\* signalled, under every interleaving of the signalling task and the timer
\* task. (Refuted: the flag is read before the action, not with it.)
C3_NoActionAfterCancel ==
    \A t \in Tasks : tasks[t].kind = "repeat" => tasks[t].late = 0

\* C4: for a RepeatOnHold trigger there is at most one live repeat task, the
\* one active[trigger] names; a press while active[trigger] exists spawns
\* nothing and changes nothing; press, press, press, release creates exactly
\* one timer task.
C4_RepeatOnHoldSingleTask ==
    \A e \in Engines : \A k \in DOMAIN bindings[e] :
        HasMacro(e, k, "RepeatOnHold") =>
            /\ Cardinality({t \in TasksOf(e, k) : ~tasks[t].closed}) <= 1
            /\ k \in DOMAIN active[e] =>
                  {t \in TasksOf(e, k) : ~tasks[t].closed} = {active[e][k]}
            /\ (LastKey(e, k, 1) /\ last[e].hadActive) =>
                  /\ last[e].call = "start"
                  /\ last[e].spawned = 0
                  /\ ~last[e].changed
            /\ keylog[e] = <<<<k, 1>>, <<k, 1>>, <<k, 1>>, <<k, 0>>>> =>
                  Cardinality(TasksOf(e, k)) = 1

C4_Witness ==
    /\ HasMacro(1, BTN_SIDE, "RepeatOnHold")
    /\ keylog[1] = <<<<BTN_SIDE, 1>>, <<BTN_SIDE, 1>>, <<BTN_SIDE, 1>>, <<BTN_SIDE, 0>>>>
    /\ Cardinality(TasksOf(1, BTN_SIDE)) = 1

\* how far a signalled repeat task is from its return, by where it stands
Rank(pc) ==
    CASE pc = "done" -> 0
      [] pc = "loop" -> 1
      [] pc \in {"sleep", "init_delay"} -> 2
      [] pc = "click2" -> 3
      [] OTHER -> 4

\* C5: when the release of a RepeatOnHold trigger has been processed,
\* active[trigger] is gone at once, and the repeat task the release signalled
\* eventually terminates, wherever in its loop (initial delay, action list,
\* interval sleep) the signal reaches it: each step it takes from then on
\* brings it nearer to its return, and it does return.
C5_ReleaseStopsRepeat ==
    /\ [](\A e \in Engines : \A k \in DOMAIN bindings[e] :
             (HasMacro(e, k, "RepeatOnHold") /\ LastKey(e, k, 0)) =>
                 /\ last[e].call = "stop"
                 /\ k \notin DOMAIN active[e])
    /\ [][\A t \in Tasks :
             (tasks[t].by = "stop" /\ tasks'[t].pc # tasks[t].pc) =>
                 Rank(tasks'[t].pc) < Rank(tasks[t].pc)]_vars
    /\ \A t \in 1..MaxTasks :
          (t \in Tasks /\ tasks[t].by = "stop") ~> (t \in Tasks /\ tasks[t].pc = "done")

C5_Witness ==
    \E t \in Tasks :
        /\ HasMacro(tasks[t].eng, tasks[t].trigger, "RepeatOnHold")
        /\ LastKey(tasks[t].eng, tasks[t].trigger, 0)
        /\ tasks[t].by = "stop"
        /\ tasks[t].late = 1
        /\ tasks[t].pc = "done"

\* C6: for a Toggle trigger of a running engine, after N presses (value 1)
\* with releases and auto-repeats anywhere between them, toggle_state[trigger]
\* is true exactly when N is odd, and active[trigger] exists exactly when N is
\* odd.
C6_ToggleParity ==
    \A e \in Engines : \A k \in DOMAIN bindings[e] :
        (HasMacro(e, k, "Toggle") /\ eng[e].pc \in {"loop", "emit"}) =>
            /\ MapGet(toggle_state[e], k, FALSE) = (Presses(keylog[e], k) % 2 = 1)
            /\ (k \in DOMAIN active[e]) = (Presses(keylog[e], k) % 2 = 1)

C6_Witness ==
    /\ HasMacro(1, BTN_SIDE, "Toggle")
    /\ eng[1].pc = "loop"
    /\ Presses(keylog[1], BTN_SIDE) = 3
    /\ \E i \in 1..Len(keylog[1]) : keylog[1][i][2] # 1
    /\ toggle_state[1][BTN_SIDE]
    /\ BTN_SIDE \in DOMAIN active[1]

\* C7: stop(trigger) while toggle_state[trigger] is true changes neither
\* active nor toggle_state nor any task and signals no cancellation; the
\* timer of a Toggle macro is signalled only by a press of its trigger
\* (start_macro) or by stop_all.
C7_ArmedToggleIgnoresStop ==
    /\ \A e \in Engines :
          (last[e].n > 0 /\ last[e].call = "stop" /\ last[e].wasArmed) => ~last[e].changed
    /\ \A t \in Tasks :
          (tasks[t].mode = "Toggle" /\ tasks[t].cancel) => tasks[t].by \in {"start", "stop_all"}

C7_Witness ==
    /\ HasMacro(1, BTN_SIDE, "Toggle")
    /\ LastKey(1, BTN_SIDE, 0)
    /\ last[1].call = "stop"
    /\ last[1].wasArmed
    /\ BTN_SIDE \in DOMAIN active[1]
    /\ ~tasks[active[1][BTN_SIDE]].cancel
    /\ tasks[active[1][BTN_SIDE]].pc # "done"

\* C8: an event that is not a KEY event with a bound code comes out of
\* process_event as exactly that event, with no call to the macro runner; as
\* long as only such events arrive, what the engine loop has written to the
\* sink plus what it is about to write equals the input, in order.
C8_PassThrough ==
    \A e \in Engines :
        /\ (last[e].n > 0 /\ ~IsBoundKey(bindings[e], last[e].ev)) =>
              /\ last[e].out = <<last[e].ev>>
              /\ last[e].call = "none"
              /\ ~last[e].changed
        /\ passlog[e].clean => passlog[e].outs \o eng[e].pending = passlog[e].evs

C8_Witness ==
    /\ passlog[1].clean
    /\ Len(passlog[1].outs) = 2
    /\ passlog[1].outs[1].type = EV_KEY
    /\ passlog[1].outs[2].type = EV_SYN
    /\ passlog[1].outs = passlog[1].evs

\* C9: a KEY event with value 0, 1 or 2 whose code is bound to Key{T}, T a
\* name parse_key_name accepts, comes out as exactly one event (KEY, code(T),
\* value), and the macro runner is not called.
C9_KeyRemap ==
    \A e \in Engines :
        (/\ last[e].n > 0
         /\ IsBoundKey(bindings[e], last[e].ev)
         /\ bindings[e][last[e].ev.code].tag = "Key"
         /\ keycode[bindings[e][last[e].ev.code].key] >= 0
         /\ last[e].ev.value \in {0, 1, 2}) =>
            /\ Len(last[e].out) = 1
            /\ last[e].out[1].type = EV_KEY
            /\ last[e].out[1].code = keycode[bindings[e][last[e].ev.code].key]
            /\ last[e].out[1].value = last[e].ev.value
            /\ last[e].call = "none"
            /\ ~last[e].changed

C9_Witness ==
    /\ LastKey(1, BTN_EXTRA, 2)
    /\ BTN_EXTRA \in DOMAIN bindings[1]
    /\ bindings[1][BTN_EXTRA] = KeyOut("KEY_A")
    /\ Len(last[1].out) = 1
    /\ last[1].out[1].code # BTN_EXTRA
    /\ last[1].out[1].value = 2
    /\ last[1].out[1].code = parse_key_name("KEY_A")

\* C10, as stated: a KEY event whose code is bound to a Macro output yields no
\* event, whatever its value. (Refuted by a binding that names a macro the
\* profile does not define: the event passes through.)
C10_MacroKeyConsumed ==
    \A e \in Engines :
        (last[e].n > 0 /\ IsMacroKey(bindings[e], last[e].ev)) => last[e].out = <<>>

\* C10, amended: a KEY event whose code is bound to a Macro output naming a
\* macro the macro map holds yields no event, whatever its value.
C10_DefinedMacroKeyConsumed ==
    \A e \in Engines :
        (/\ last[e].n > 0
         /\ IsMacroKey(bindings[e], last[e].ev)
         /\ bindings[e][last[e].ev.code].macro_name \in DOMAIN macro_defs[e]) =>
            last[e].out = <<>>

C10_Witness ==
    /\ LastKey(1, BTN_SIDE, 2)
    /\ IsMacroKey(bindings[1], last[1].ev)
    /\ bindings[1][BTN_SIDE].macro_name \in DOMAIN macro_defs[1]
    /\ last[1].out = <<>>
    /\ eng[1].pc = "loop"

\* C11: the macro runner is called only for a KEY event whose code is bound
\* to a Macro output naming a macro the macro map holds: start exactly on
\* value 1, stop exactly on value 0, neither on value 2. No other event
\* (non-KEY, unbound, bound to a Key output) reaches start or stop, and an
\* event that makes no call leaves the runner's tables and tasks alone.
C11_RunnerCalledOnlyForMacroKeys ==
    \A e \in Engines :
        last[e].n > 0 =>
            LET ev == last[e].ev
                defined == /\ IsMacroKey(bindings[e], ev)
                           /\ bindings[e][ev.code].macro_name \in DOMAIN macro_defs[e]
            IN  /\ (last[e].call = "start") = (defined /\ ev.value = 1)
                /\ (last[e].call = "stop") = (defined /\ ev.value = 0)
                /\ last[e].call \in {"start", "stop", "none"}
                /\ last[e].call = "none" => ~last[e].changed

C11_Witness ==
    /\ LastKey(1, BTN_SIDE, 2)
    /\ IsMacroKey(bindings[1], last[1].ev)
    /\ bindings[1][BTN_SIDE].macro_name \in DOMAIN macro_defs[1]
    /\ last[1].call = "none"
    /\ keylog[1] = <<<<BTN_SIDE, 1>>, <<BTN_SIDE, 2>>>>
    /\ BTN_SIDE \in DOMAIN active[1]

\* C12: while the event loop of an engine has events of the reader channel to
\* consume or is writing the result of one, the source is held with that
\* engine's exclusive grab: it is acquired before the first event is consumed
\* and not released while the loop still processes events. (Refuted: on an I/O
\* error the reader thread returns and its drop releases the grab while events
\* it sent earlier are still in the channel; the loop goes on to process them.)
C12_GrabHeldWhileLoopRuns ==
    \A e \in Engines :
        (Alive /\ eng[e].pc \in {"loop", "emit"} /\ (chan[e] # <<>> \/ eng[e].pc = "emit")) =>
            grab = e

\* engine e is over and so is every timer task it spawned: nothing of it is
\* left that writes to the sink
Quiet(e) ==
    /\ eng[e].pc \in {"done", "dropped"}
    /\ \A t \in Tasks : tasks[t].eng = e => tasks[t].pc = "done"

\* C13: once Shutdown has been handled for a running engine with a
\* RepeatOnHold macro active, the supervisor loop has exited, and eventually
\* the engine is over and every timer task has terminated; from then on
\* nothing is written to the sink.
C13_ShutdownQuiesces ==
    /\ [](\A e \in Engines : eng[e].stopped_by = "Shutdown" => sup.pc = "exited")
    /\ \A e \in Engines : (eng[e].stopped_by = "Shutdown") ~> Quiet(e)
    /\ [][\A e \in Engines : Quiet(e) => (Quiet(e)' /\ sink'[e] = sink[e])]_vars

C13_Witness ==
    /\ eng[1].stopped_by = "Shutdown"
    /\ sup.pc = "exited"
    /\ Quiet(1)
    /\ \E t \in Tasks :
          /\ tasks[t].mode = "RepeatOnHold"
          /\ tasks[t].by = "stop_all"
          /\ sink[1].by = t

\* timer task t passes a batch to the sink in this step
TaskWrites(t) ==
    \/ /\ TaskExec(t)
       /\ tasks[t].actions[tasks[t].idx].tag # "Delay"
       /\ keycode[tasks[t].actions[tasks[t].idx].arg] >= 0
    \/ TaskClick2(t)

\* the cancel branch of engine e has run for a Stop or Shutdown: stop_all was called
StopAllRan(e) ==
    /\ eng[e].pc = "done"
    /\ eng[e].stopped_by \in {"Stop", "Shutdown"}
    /\ ~reader[e].failed

\* C14: a Sequence task in flight (say, asleep in a Delay) is destroyed when
\* the engine shuts down: once stop_all has run for a Stop or Shutdown, the
\* task passes no further Click, Press or Release to the sink. (Refuted:
\* run_sequence_macro holds no cancel receiver and stop_all only signals the
\* entries of `active`, which a Sequence never enters.)
C14_SequenceDestroyedOnShutdown ==
    [][\A t \in Tasks :
          (tasks[t].kind = "sequence" /\ StopAllRan(tasks[t].eng)) => ~TaskWrites(t)]_vars

\* C15: in every batch written to the sink, by the engine loop from the
\* mapper's output or by a macro action, each KEY or REL event is followed,
\* within that batch, by a SYN_REPORT. (Refuted for the engine loop: it emits
\* the mapper's output as it is, a passed-through or remapped event alone.)
C15_KeyRelFollowedBySyn ==
    \A e \in Engines :
        LET batch == sink[e].batch
        IN  sink[e].ok =>
                \A i \in 1..Len(batch) :
                    batch[i].type \in {EV_KEY, EV_REL} =>
                        \E j \in (i + 1)..Len(batch) :
                            batch[j].type = EV_SYN /\ batch[j].code = SynReport.code

\* the StatusUpdate and Error observations sender p has sent
Observations(p) == {i \in 1..Len(msgs[p]) : msgs[p][i].tag \in {"StatusUpdate", "Error"}}

\* C16: the handling of every command (Start, Stop, ReloadConfig, Shutdown)
\* sends at least one StatusUpdate or Error observation. (Refuted: the
\* Shutdown arm cancels, aborts and leaves the loop without sending anything.)
C16_EveryCommandObserved ==
    [][ncmds' # ncmds =>
          \E p \in DOMAIN msgs :
              Cardinality(Observations(p)') > Cardinality(Observations(p))]_vars

\* engine e met an unrecoverable error: its start-up failed, or its reader's
\* read loop failed
EngineFailed(e) ==
    \/ eng[e].pc \in {"open_failed", "sink_failed", "grab_failed"}
    \/ reader[e].failed

ErrorsOf(e) == {i \in 1..Len(msgs[e]) : msgs[e][i].tag = "Error"}

\* C17: an Error observation is sent only for an unrecoverable engine error:
\* an engine that ends because of a Stop, or of the Start that replaces it,
\* sends no Error observation, however the supervisor task and the engine
\* task interleave. (Refuted: when the cancel branch runs before the abort
\* takes effect, run_engine returns Ok and the task reports that as an error.)
C17_NoErrorOnUserStop ==
    \A e \in Engines :
        (eng[e].stopped_by \in {"Stop", "Start"} /\ ~EngineFailed(e)) => ErrorsOf(e) = {}

StartupFailed(e) == eng[e].pc \in {"open_failed", "sink_failed", "grab_failed"}

\* C18: when the start-up of an engine fails (device open, sink build, grab),
\* the engine never enters its event loop (it stays failed, has announced no
\* grab and consumed no event), it holds no grab, it leaves no reader thread
\* behind, and it has sent exactly one Error observation.
C18_StartupFailureCleansUp ==
    /\ [](\A e \in Engines :
             StartupFailed(e) =>
                 /\ reader[e].pc \in {"none", "exited"}
                 /\ ~reader[e].grabbed
                 /\ grab # e
                 /\ chan[e] = <<>>
                 /\ last[e].n = 0
                 /\ Cardinality(ErrorsOf(e)) = 1
                 /\ msgs[e][Len(msgs[e])].tag = "Error"
                 /\ Observations(e) = ErrorsOf(e))
    /\ [][\A e \in Engines : StartupFailed(e) => eng'[e].pc = eng[e].pc]_vars

C18_Witness ==
    /\ eng[2].pc = "grab_failed"
    /\ reader[2].pc = "exited"
    /\ grab = 1
    /\ msgs[2] = <<Error(2, "Failed to grab device")>>

C20_WriteFailureKeepsEngineUp ==
    /\ [](\A e \in Engines :
             ~sink[e].ok => (eng[e].pc \in {"loop", "emit"} /\ grab = e /\ reader[e].pc = "fetch"))
    /\ [](\A t \in Tasks :
             (tasks[t].kind = "repeat" /\ tasks[t].pc = "done") =>
                 (tasks[t].cancel \/ tasks[t].closed))
    /\ [][\A e \in Engines :
             (EngineEmit(e) /\ ~accepting[e]) =>
                 /\ eng'[e].pc = "loop"
                 /\ UNCHANGED <<active, toggle_state, tasks, grab, reader, chan>>]_vars
    /\ [][\A t \in Tasks :
             (TaskWrites(t) /\ ~accepting[tasks[t].eng]) =>
                 /\ tasks'[t].pc = PcAt(tasks[t].kind, tasks[t].actions, tasks[t].idx + 1)
                 /\ \A u \in Tasks \ {t} : tasks'[u] = tasks[u]
                 /\ UNCHANGED <<active, toggle_state, eng, grab, reader, chan>>]_vars

C20_Witness ==
    /\ sink[1].by = 0
    /\ ~sink[1].ok
    /\ last[1].n = 2
    /\ last[1].ev.type = EV_SYN
    /\ keylog[1] = <<<<BTN_SIDE, 1>>>>
    /\ BTN_SIDE \in DOMAIN active[1]
    /\ tasks[active[1][BTN_SIDE]].pc = "sleep"
    /\ ~tasks[active[1][BTN_SIDE]].closed
    /\ eng[1].pc = "loop"
    /\ grab = 1

ReloadText == "Config reload requested (restart engine to apply)"

\* the supervisor sends the ReloadConfig status in this step
ReloadObserved ==
    /\ Len(msgs'[0]) = Len(msgs[0]) + 1
    /\ msgs'[0][Len(msgs'[0])] = StatusUpdate(0, ReloadText)

\* C21: the handling of ReloadConfig while an engine runs sends its status
\* observation and changes nothing else: not the binding map, the macro map,
\* the runner's tables, the timer tasks, the reader, the grab, the engine or
\* the supervisor's handles. The maps of an engine are set only while that
\* engine starts up, so new bindings take effect with the next Start.
C21_ReloadChangesNothing ==
    /\ [][ReloadObserved =>
             /\ ncmds' = ncmds + 1
             /\ UNCHANGED <<sup, engVars, readerVars, runnerVars, sinkVars, accepting>>
             /\ \A e \in Engines : msgs'[e] = msgs[e]]_vars
    /\ [][\A e \in Engines :
             <<bindings[e], macro_defs[e]>>' # <<bindings[e], macro_defs[e]>> =>
                 (eng[e].pc = "spawned" /\ eng'[e].pc = "opened")]_vars

C21_Witness ==
    /\ msgs[0][Len(msgs[0])] = StatusUpdate(0, ReloadText)
    /\ eng[1].pc = "loop"
    /\ grab = 1
    /\ bindings[1] # EmptyMap
    /\ BTN_SIDE \in DOMAIN active[1]
    /\ tasks[active[1][BTN_SIDE]].pc = "sleep"
    /\ ~tasks[active[1][BTN_SIDE]].closed

\* the output of the last entry, in list order, of the active profile of cfg
\* whose input name resolves to code k
LastEntryFor(cfg, k) ==
    LET b == active_profile(cfg)[1].bindings
    IN  b[Max({i \in 1..Len(b) : keycode[b[i].input] = k})].output

\* C22: when several entries of the binding list resolve to one KeyCode, the
\* BindingMap holds for that code the output of the entry that is last in the
\* list. The code guarantees this for entries of one and the same name only:
\* names of different spelling reach load_config through a HashMap, whose
\* iteration order decides which of them is inserted last.
C22_LastEntryWins ==
    \A k \in DOMAIN bindings[1] :
        (last[1].ev # <<>> /\ last[1].ev.type = EV_KEY /\ last[1].ev.code = k) =>
            /\ bindings[1][k] = LastEntryFor(CfgDup, k)
            /\ last[1].out = remap(keycode[LastEntryFor(CfgDup, k).key], last[1].ev.value).out

\* C23: events reach the sink in the order the reader produced them. The
\* channel only grows at its tail, by the event the device produced next; the
\* engine loop takes the head of the channel, and only when nothing of the
\* previous event's output is left to write, so the n-th event it processes is
\* the n-th the reader produced; and it writes the whole output of that event
\* as one batch before it reads again.
C23_EventOrder ==
    [][/\ chan'[1] # chan[1] =>
             \/ chan[1] # <<>> /\ chan'[1] = Tail(chan[1])
             \/ /\ Len(chan'[1]) = Len(chan[1]) + 1
                /\ SubSeq(chan'[1], 1, Len(chan[1])) = chan[1]
                /\ chan'[1][Len(chan'[1])].time = nread + 1
       /\ last'[1].n # last[1].n =>
             /\ last'[1].n = last[1].n + 1
             /\ eng[1].pending = <<>>
             /\ chan[1] # <<>>
             /\ last'[1].ev = Head(chan[1])
             /\ last'[1].ev.time = last'[1].n
             /\ chan'[1] = Tail(chan[1])
             /\ eng'[1].pending = last'[1].out
       /\ eng'[1].pending # eng[1].pending =>
             \/ last'[1].n # last[1].n
             \/ /\ eng[1].pending = last[1].out
                /\ sink'[1] = [by |-> 0, batch |-> eng[1].pending, ok |-> accepting[1]]
                /\ eng'[1].pending = <<>>
                /\ UNCHANGED <<last, chan>>
       /\ (sink'[1] # sink[1] /\ sink'[1].by = 0) => eng[1].pending = sink'[1].batch
      ]_vars

C23_Witness ==
    /\ last[1].n = 1
    /\ last[1].ev.time = 1
    /\ last[1].out # <<>>
    /\ eng[1].pending = <<>>
    /\ sink[1] = [by |-> 0, batch |-> last[1].out, ok |-> TRUE]
    /\ Len(chan[1]) = 2
    /\ chan[1][1].time = 2
    /\ chan[1][2].time = 3

\* the symbolic names of the lookup tables (the alias BTN_MOUSE among them)
TableNames == {p[1] : p \in ButtonTable \cup KeyTable}

C25_DelaySuspendsRepeat ==
    [][\A t \in 1..Len(tasks) :
          (/\ tasks[t].kind = "repeat"
           /\ tasks[t].pc = "exec"
           /\ tasks[t].actions[tasks[t].idx].tag = "Delay"
           /\ tasks'[t] # tasks[t]) => tasks'[t].pc = "delay"]_vars

\* the release of the trigger has signalled task t, a RepeatOnHold task with
\* an initial delay, while it is in that delay
CancelledInDelay(t) ==
    /\ t \in Tasks
    /\ tasks[t].mode = "RepeatOnHold"
    /\ tasks[t].initial_delay > 0
    /\ tasks[t].pc = "init_delay"
    /\ tasks[t].cancel

\* C26: a RepeatOnHold task whose trigger is released before its initial
\* delay has elapsed emits nothing at all, whichever of the two branches of
\* the select!, the sleep or the cancellation, completes: a task in its
\* initial delay has written nothing, and from the signal on it never comes
\* to perform an action.
C26_CancelledInDelayEmitsNothing ==
    /\ [](\A t \in Tasks :
             tasks[t].pc = "init_delay" =>
                 (tasks[t].late = 0 /\ sink[tasks[t].eng].by # t /\ lock[tasks[t].eng] # t))
    /\ \A t \in 1..MaxTasks :
          [](CancelledInDelay(t) =>
                [](t \in Tasks => tasks[t].pc \notin {"exec", "click2"}))
    /\ [][\A t \in Tasks : (CancelledInDelay(t) \/ (tasks[t].cancel /\ tasks[t].pc = "loop"))
                               => ~TaskWrites(t)]_vars

C26_Witness ==
    /\ Len(tasks) = 1
    /\ tasks[1].mode = "RepeatOnHold"
    /\ tasks[1].initial_delay > 0
    /\ tasks[1].by = "stop"
    /\ tasks[1].pc = "loop"
    /\ tasks[1].cancel
    /\ sink[1] = NoWrite

\* the frame a Press (value 1) or Release (value 0) of the key named n writes
FrameOf(t, n, value) ==
    [by |-> t, batch |-> <<KeyEvent(keycode[n], value), SynReport>>, ok |-> accepting[tasks[t].eng]]

\* the step of Sequence task t is the next one of its action list: a Press or
\* a Release writes its frame, a Click its press frame and then its release
\* frame, a Delay writes nothing; then the task is at the next action
SequenceStep(t) ==
    LET a == tasks[t].actions[tasks[t].idx]
        e == tasks[t].eng
    IN  /\ tasks[t].pc \in {"exec", "click2", "delay"}
        /\ tasks[t].idx \in 1..Len(tasks[t].actions)
        /\ CASE tasks[t].pc = "delay" ->
                    a.tag = "Delay" /\ sink' = sink /\ tasks'[t].idx = tasks[t].idx + 1
             [] tasks[t].pc = "click2" ->
                    /\ a.tag = "Click"
                    /\ sink'[e] = FrameOf(t, a.arg, 0)
                    /\ tasks'[t].idx = tasks[t].idx + 1
             [] tasks[t].pc = "exec" /\ a.tag = "Click" ->
                    /\ sink'[e] = FrameOf(t, a.arg, 1)
                    /\ tasks'[t].pc = "click2"
                    /\ tasks'[t].idx = tasks[t].idx
             [] tasks[t].pc = "exec" /\ a.tag = "Press" ->
                    sink'[e] = FrameOf(t, a.arg, 1) /\ tasks'[t].idx = tasks[t].idx + 1
             [] tasks[t].pc = "exec" /\ a.tag = "Release" ->
                    sink'[e] = FrameOf(t, a.arg, 0) /\ tasks'[t].idx = tasks[t].idx + 1
             [] OTHER -> FALSE
        /\ tasks'[t].pc = "done" <=> tasks'[t].idx = Len(tasks[t].actions) + 1

\* C27: a Sequence macro emits, once per press of its trigger, the frames of
\* its action list in list order; it has no entry in `active` or
\* `toggle_state`, and the release of the trigger neither cancels it nor
\* changes the runner's state.
C27_SequenceRunsOncePerPress ==
    /\ [](\A k \in DOMAIN bindings[1] :
             HasMacro(1, k, "Sequence") =>
                 /\ k \notin DOMAIN active[1]
                 /\ k \notin DOMAIN toggle_state[1]
                 /\ Cardinality(TasksOf(1, k)) = Presses(keylog[1], k)
                 /\ \A t \in TasksOf(1, k) :
                       tasks[t].kind = "sequence" /\ ~tasks[t].cancel /\ ~tasks[t].closed
                 /\ LastKey(1, k, 1) => (last[1].call = "start" /\ last[1].spawned = 1)
                 /\ LastKey(1, k, 0) => (last[1].call = "stop" /\ ~last[1].changed))
    /\ [][\A t \in Tasks :
             (tasks[t].mode = "Sequence" /\ tasks'[t] # tasks[t]) => SequenceStep(t)]_vars
    /\ (1 \in Tasks) ~> (1 \in Tasks /\ tasks[1].pc = "done")

C27_Witness ==
    /\ Len(tasks) = 1
    /\ tasks[1].mode = "Sequence"
    /\ tasks[1].actions[1].tag = "Click"
    /\ tasks[1].pc = "done"
    /\ keylog[1] = <<<<BTN_SIDE, 1>>, <<BTN_SIDE, 0>>>>
    /\ sink[1] = [by |-> 1, batch |-> <<KeyEvent(keycode["KEY_A"], 0), SynReport>>, ok |-> TRUE]
    /\ active[1] = EmptyMap

\* C28: stop_all signals the task of every entry of `active`, and after it
\* `active` and `toggle_state` are empty: no trigger counts as active or as
\* armed any more, so a press of a former Toggle trigger would arm it afresh.
C28_StopAllClears ==
    [][\A e \in Engines :
          EngineCancel(e) =>
              /\ \A k \in DOMAIN active[e] :
                    /\ tasks'[active[e][k]].cancel
                    /\ tasks'[active[e][k]].by = "stop_all"
              /\ \A t \in Tasks :
                    t \notin {active[e][k] : k \in DOMAIN active[e]} => tasks'[t] = tasks[t]
              /\ active'[e] = EmptyMap
              /\ toggle_state'[e] = EmptyMap
              /\ \A k \in DOMAIN bindings[e] :
                    /\ ~is_active(e, k)'
                    /\ ~toggle_armed(e, k)']_vars

C28_Witness ==
    /\ eng[1].pc = "done"
    /\ active[1] = EmptyMap
    /\ toggle_state[1] = EmptyMap
    /\ \E t \in Tasks :
          /\ tasks[t].mode = "Toggle"
          /\ tasks[t].by = "stop_all"
          /\ tasks[t].cancel
    /\ Presses(keylog[1], BTN_SIDE) = 1

\* C29: every write to the sink is made with the sink's lock held, so at most
\* one writer is inside the sink at a time. The lock is held over more than
\* one step only by a task between the two frames of a Click; while it is
\* held nobody else writes and nobody takes it again, a writer starts only
\* with the lock free, and its holder is never at a suspension point (a
\* sleep, a delay, the loop's select!) nor finished.
C29_SinkLock ==
    /\ [](\A e \in Engines :
             /\ lock[e] # 0 =>
                   /\ lock[e] \in Tasks
                   /\ tasks[lock[e]].eng = e
                   /\ tasks[lock[e]].pc = "click2"
             /\ \A t \in Tasks :
                   (tasks[t].eng = e /\ tasks[t].pc = "click2") => lock[e] = t)
    /\ [][\A e \in Engines :
             /\ (lock[e] # 0 /\ sink'[e] # sink[e]) => sink'[e].by = lock[e]
             /\ (lock[e] # 0 /\ lock'[e] # lock[e]) => (lock'[e] = 0 /\ TaskClick2(lock[e]))
             /\ EngineEmit(e) => (lock[e] = 0 /\ lock'[e] = 0)
             /\ \A t \in Tasks :
                   (tasks[t].eng = e /\ TaskWrites(t)) =>
                       \/ lock[e] = 0 /\ lock'[e] \in {0, t}
                       \/ lock[e] = t /\ lock'[e] = 0]_vars

C29_Witness ==
    /\ lock[1] # 0
    /\ eng[1].pc = "emit"
    /\ sink[1].by = lock[1]
    /\ tasks[lock[1]].pc = "click2"

\* the last event engine e processed is a KEY event bound to a Macro output
\* whose macro the macro map does not hold
LastKeyNamesUnknownMacro(e) ==
    /\ last[e].n > 0
    /\ IsMacroKey(bindings[e], last[e].ev)
    /\ bindings[e][last[e].ev.code].macro_name \notin DOMAIN macro_defs[e]

\* C30: a KEY event bound to a Macro output whose name the macro map does not
\* hold is passed through unchanged as the only element of the output,
\* whatever its value (0, 1 or 2), and the macro runner is not called: no
\* task is spawned and its tables stay as they are. The engine loop then
\* writes exactly that event.
C30_UnknownMacroPassesThrough ==
    /\ [](\A e \in Engines :
             LastKeyNamesUnknownMacro(e) =>
                 /\ last[e].out = <<last[e].ev>>
                 /\ last[e].call = "none"
                 /\ last[e].spawned = 0
                 /\ ~last[e].changed
                 /\ eng[e].pc = "emit" => eng[e].pending = <<last[e].ev>>)
    /\ [][\A e \in Engines :
             (LastKeyNamesUnknownMacro(e) /\ EngineEmit(e)) =>
                 sink'[e].batch = <<last[e].ev>>]_vars

C30_Witness ==
    /\ LastKeyNamesUnknownMacro(1)
    /\ LastKey(1, BTN_EXTRA, 1)
    /\ eng[1].pc = "loop"
    /\ sink[1] = [by |-> 0, batch |-> <<Ev(EV_KEY, BTN_EXTRA, 1, 1)>>, ok |-> TRUE]
    /\ tasks = <<>>

\* the last event engine e processed is a KEY event bound to a Key output
\* whose target name does not parse
LastKeyHasUnparsedTarget(e) ==
    /\ last[e].n > 0
    /\ IsBoundKey(bindings[e], last[e].ev)
    /\ bindings[e][last[e].ev.code].tag = "Key"
    /\ keycode[bindings[e][last[e].ev.code].key] < 0

\* C31: a KEY event bound to a Key output whose target name does not parse is
\* passed through unchanged, as the only element of the output, with its own
\* code and value; the mapper's maps and the runner's tables and tasks stay
\* as they were.
C31_UnparsedTargetPassesThrough ==
    /\ [](\A e \in Engines :
             LastKeyHasUnparsedTarget(e) =>
                 /\ last[e].out = <<last[e].ev>>
                 /\ last[e].call = "none"
                 /\ last[e].spawned = 0
                 /\ ~last[e].changed)
    /\ [][\A e \in Engines :
             (last'[e].n # last[e].n /\ LastKeyHasUnparsedTarget(e)') =>
                 /\ UNCHANGED <<bindings, macro_defs, runnerVars>>
                 /\ eng'[e].pending = <<Head(chan[e])>>]_vars

C31_Witness ==
    /\ LastKeyHasUnparsedTarget(1)
    /\ LastKey(1, BTN_SIDE, 0)
    /\ bindings[1][BTN_SIDE] = KeyOut("bogus")
    /\ eng[1].pc = "loop"
    /\ sink[1] = [by |-> 0, batch |-> <<Ev(EV_KEY, BTN_SIDE, 0, 1)>>, ok |-> TRUE]

\* the bindings and macros of the active profile of cfg (none without one)
ActiveBindings(cfg) == IF active_profile(cfg) = <<>> THEN <<>> ELSE active_profile(cfg)[1].bindings
ActiveMacros(cfg) == IF active_profile(cfg) = <<>> THEN <<>> ELSE active_profile(cfg)[1].macros

\* C32: load_config replaces both maps from the active profile of the
\* configuration it is given. Afterwards the binding map holds exactly the
\* codes that the profile's input names parse to, each with the output of an
\* entry of that code (a name that does not parse adds nothing and stops
\* nothing), and the macro map exactly the profile's macro names, each with a
\* macro of that name: nothing of an earlier load is left.
C32_LoadConfigReplaces ==
    [][calc.pc = "mapper" /\ calc' # calc =>
         LET cfg == calc'.loaded[Len(calc'.loaded)]
             b == ActiveBindings(cfg)
             m == ActiveMacros(cfg)
         IN  /\ DOMAIN calc'.bindings = {keycode[b[i].input] : i \in 1..Len(b)} \ {-1}
             /\ \A k \in DOMAIN calc'.bindings :
                   \E i \in 1..Len(b) :
                       keycode[b[i].input] = k /\ calc'.bindings[k] = b[i].output
             /\ DOMAIN calc'.macro_defs = {m[i].name : i \in 1..Len(m)}
             /\ \A n \in DOMAIN calc'.macro_defs :
                   \E i \in 1..Len(m) : m[i] = calc'.macro_defs[n] /\ m[i].name = n]_vars

C32_Witness ==
    /\ calc.pc = "mapper"
    /\ calc.loaded = <<CfgHold, CfgRemap>>
    /\ DOMAIN calc.bindings = {BTN_EXTRA, BTN_SIDE}
    /\ calc.bindings[BTN_EXTRA] = KeyOut("KEY_A")
    /\ calc.bindings[BTN_SIDE] = KeyOut("bogus")
    /\ calc.macro_defs = EmptyMap

\* the RawEvent observations engine e has sent, in send order
RawEvents(e) == SelectSeq(msgs[e], LAMBDA m : m.tag = "RawEvent")

\* C33: the engine sends exactly one RawEvent observation for each event it
\* receives whose type is neither SYN nor MSC, built from that event, and
\* none for a SYN or MSC event; it sends it whatever the mapper makes of the
\* event, and sends none at any other moment, so the observations are in
\* arrival order.
C33_OneRawEventPerEvent ==
    /\ [][/\ last'[1].n # last[1].n =>
                LET ev == Head(chan[1])
                IN  IF ev.type \in {EV_SYN, EV_MSC}
                    THEN msgs'[1] = msgs[1]
                    ELSE msgs'[1] = Append(msgs[1], event_to_message(1, ev))
          /\ msgs'[1] # msgs[1] => last'[1].n # last[1].n]_vars
    /\ [](/\ Len(RawEvents(1)) <= last[1].n
          /\ \A i \in 1..Len(RawEvents(1)) :
                /\ RawEvents(1)[i].event_type \notin {"EV_SYN", "EV_MSC"}
                /\ RawEvents(1)[i].timestamp[1] <= last[1].n
                /\ i > 1 => RawEvents(1)[i - 1].timestamp[1] < RawEvents(1)[i].timestamp[1])

C33_Witness ==
    /\ last[1].n = 3
    /\ last[1].ev.type = EV_KEY
    /\ last[1].ev.code = BTN_SIDE
    /\ last[1].out = <<>>
    /\ last[1].call = "start"
    /\ Len(RawEvents(1)) = 2
    /\ RawEvents(1)[1].timestamp[1] = 1
    /\ RawEvents(1)[2] = event_to_message(1, last[1].ev)
    /\ RawEvents(1)[2].timestamp[1] = 3

\* C34: the sleep between two passes of a repeating macro is interval_ms when
\* jitter_ms is 0; otherwise it lies between max(1, interval_ms - jitter_ms)
\* and interval_ms + jitter_ms, and so is never below 1 ms, also when the
\* jitter exceeds the interval.
C34_JitterRange ==
    calc.pc = "sleep" =>
        IF calc.jitter_ms = 0
        THEN calc.sleep_ms = calc.interval_ms
        ELSE /\ calc.sleep_ms >= Max({1, calc.interval_ms - calc.jitter_ms})
             /\ calc.sleep_ms <= calc.interval_ms + calc.jitter_ms
             /\ calc.sleep_ms >= 1

C34_Witness ==
    /\ calc.pc = "sleep"
    /\ calc.interval_ms = 2
    /\ calc.jitter_ms = 5
    /\ calc.sleep_ms = 1

\* the repeat tasks of trigger k of engine e that have not returned
AliveTasksOf(e, k) == {t \in TasksOf(e, k) : tasks[t].kind = "repeat" /\ tasks[t].pc # "done"}

\* C35: for a RepeatOnHold trigger at most one repeat task is alive (spawned
\* and not yet returned) at any moment, whatever the presses and releases.
\* (Refuted: a release signals the timer but does not wait for its return,
\* and the next press spawns a new one at once.)
C35_OneAliveRepeatTask ==
    \A e \in Engines : \A k \in DOMAIN bindings[e] :
        HasMacro(e, k, "RepeatOnHold") => Cardinality(AliveTasksOf(e, k)) <= 1

\* C36: the source is grabbed only while the event loop of the grabbing
\* engine is alive to forward its events: in no state does a reader hold the
\* grab after its engine's loop has exited. (Refuted: the loop ends on Stop
\* while the reader thread stays in fetch_events with the grab; the event
\* it reads next is the one it finds nobody to send to.)
C36_GrabOnlyWhileLoopAlive ==
    \A e \in Engines : (Alive /\ grab = e) => RxAlive(e)

\* the cancel sender of task t went with its mapper, and sent nothing
SenderDropped(t) == tasks[t].kind = "repeat" /\ tasks[t].closed /\ ~tasks[t].cancel

\* C37: a mapper dropped without stop_all (engine task aborted, or event
\* channel closed) leaves no repeat task behind: a task whose cancel sender
\* was dropped returns; it begins at most one pass through its actions after
\* the drop; and once it has come to a sleep after the drop it writes nothing
\* more, the only step it takes from that sleep being the return.
C37_DroppedSenderEndsTask ==
    /\ (1 \in Tasks /\ SenderDropped(1)) ~> (1 \in Tasks /\ tasks[1].pc = "done")
    /\ [](\A t \in Tasks : SenderDropped(t) => tasks[t].passes <= 1)
    /\ [][\A t \in Tasks :
             (SenderDropped(t) /\ tasks[t].pc = "sleep" /\ ~tasks[t].armed) =>
                 (tasks'[t] = tasks[t] \/ tasks'[t].pc = "done")]_vars

C37_Witness ==
    \E t \in Tasks :
        /\ SenderDropped(t)
        /\ tasks[t].passes = 1
        /\ tasks[t].pc = "done"
        /\ sink[tasks[t].eng].by = t
        /\ eng[tasks[t].eng].pc \in {"done", "dropped"}

\* C38: an armed toggle always has a cancellable timer: in every state of the
\* runner, whatever the start, stop and stop_all calls made on it, a trigger
\* whose toggle_state is true has an entry in `active`, and the cancel sender
\* in that entry is that of a repeating task of the trigger not yet signalled.
C38_ArmedToggleHasTimer ==
    \A e \in Engines : \A k \in DOMAIN toggle_state[e] :
        toggle_state[e][k] =>
            /\ k \in DOMAIN active[e]
            /\ active[e][k] \in TasksOf(e, k)
            /\ tasks[active[e][k]].kind = "repeat"
            /\ ~tasks[active[e][k]].closed

C38_Witness ==
    /\ MapGet(toggle_state[1], BTN_SIDE, FALSE)
    /\ BTN_SIDE \in DOMAIN active[1]
    /\ last[1].call = "stop"
    /\ \E t \in TasksOf(1, BTN_SIDE) : tasks[t].by = "start"

\* the frame the sink last took is the press (value 1) / the release (value 0)
\* frame of the Click that task t is performing
ClickFrame(t, value) ==
    [by |-> t,
     batch |-> <<KeyEvent(keycode[tasks[t].actions[tasks[t].idx].arg], value), SynReport>>,
     ok |-> TRUE]

\* C39: a Click is atomic with respect to the other writers of the sink.
\* While a task stands between the two frames of a Click, the frame the sink
\* last took is that Click's press frame; neither the engine loop nor another
\* task of the engine writes in that time; and the next frame the sink takes
\* is the release frame of the same key, written by the same task.
C39_ClickAtomic ==
    /\ [](\A t \in Tasks :
             tasks[t].pc = "click2" => sink[tasks[t].eng] = ClickFrame(t, 1))
    /\ [][\A t \in Tasks :
             tasks[t].pc = "click2" =>
                 /\ ~EngineEmit(tasks[t].eng)
                 /\ \A u \in Tasks \ {t} : tasks[u].eng = tasks[t].eng => ~TaskWrites(u)
                 /\ sink'[tasks[t].eng] # sink[tasks[t].eng] =>
                        /\ TaskClick2(t)
                        /\ sink'[tasks[t].eng].by = t
                        /\ sink'[tasks[t].eng].batch = ClickFrame(t, 0).batch]_vars

C39_Witness ==
    \E t, u \in Tasks :
        /\ t # u /\ tasks[u].eng = tasks[t].eng
        /\ tasks[t].pc = "click2"
        /\ tasks[u].pc = "exec"
        /\ sink[tasks[t].eng] = ClickFrame(t, 1)

\* entry i of the monitor buffer arrived before entry j, as far as the
\* entries tell: the motion observations carry their arrival number
ArrivedBefore(app, i, j) ==
    (app.monitor_events[i].event_type = "EV_REL" /\ app.monitor_events[j].event_type = "EV_REL")
        => app.monitor_events[i].value < app.monitor_events[j].value

\* the last n elements of a sequence
LastN(seq, n) == IF Len(seq) > n THEN SubSeq(seq, Len(seq) - n + 1, Len(seq)) ELSE seq

\* C40: the monitor bounds its own retention. The buffer never holds more than
\* monitor_max_events (500) entries, and they are the most recent of the
\* entries pushed since the buffer was last cleared, in arrival order; one
\* call of poll_engine_messages takes at most MAX_MESSAGES_PER_TICK (200)
\* messages from the channel, the oldest first, and all of them if fewer
\* wait; and a call made while the monitor is paused stores nothing.
C40_MonitorBounded ==
    /\ [](calc.pc = "app" =>
             /\ Len(calc.monitor_events) <= monitor_max_events
             /\ calc.monitor_events = LastN(calc.kept, monitor_max_events)
             /\ \A i \in 1..(Len(calc.monitor_events) - 1) : ArrivedBefore(calc, i, i + 1)
             /\ calc.processed <= MAX_MESSAGES_PER_TICK)
    /\ [][MonitorPoll =>
             /\ calc'.processed = Min({Len(calc.rx), MAX_MESSAGES_PER_TICK})
             /\ calc'.rx = SubSeq(calc.rx, calc'.processed + 1, Len(calc.rx))
             /\ calc.monitor_paused => calc'.monitor_events = calc.monitor_events]_vars

C40_Witness ==
    /\ calc.pc = "app"
    /\ Len(calc.monitor_events) = monitor_max_events
    /\ Len(calc.kept) > monitor_max_events
    /\ calc.processed = MAX_MESSAGES_PER_TICK
    /\ calc.rx # <<>>
    /\ calc.monitor_paused
    /\ calc.captured # <<>>

====
